---- MODULE Spec2Model ----
(***************************************************************************)
(* Towers of Hanoi (daturkel/hanoi): the puzzle state machine, its clock   *)
(* and the local high-score ledger, as the key handlers of the page drive  *)
(* them.  Line numbers refer to src/unnamed/part_000 (the current script); *)
(* src/game.js is the earlier script with the same game logic.             *)
(***************************************************************************)
EXTENDS Integers, Sequences, FiniteSets, TLC

(***************************************************************************)
(* Program constants.                                                      *)
(***************************************************************************)
MIN_DISKS == 3
MAX_DISKS == 10
DEFAULT_DISKS == 5
MS_PER_SECOND == 1000

\* JavaScript null of gameState.selectedTower (compared with === null).
NULL == -1

\* JavaScript null of gameState.startTime and gameState.timerInterval.  Both
\* are only tested for truthiness or used in a subtraction, where null and 0
\* behave alike (!null = !0, n - null = n).
NO_TIME == 0

(***************************************************************************)
(* Bounds of the model.                                                    *)
(***************************************************************************)
\* The player makes at most MaxMoves legal moves in one puzzle instance.
MaxMoves == 8
\* The wall clock (Date.now(), in ms) is followed up to MaxNow.
MaxNow == 2200
\* The player dials the desired disk count no higher than MaxDial.
MaxDial == 4

\* Date.now() when the page is loaded, and the amounts by which the clock is
\* seen to advance between two events.
PageLoadTime == 1000
ClockSteps == {600}

Poles == 0..2

(***************************************************************************)
(* State.                                                                  *)
(***************************************************************************)
VARIABLES
    towers,             \* gameState.towers: pole -> disks, bottom to top
    selectedTower,      \* gameState.selectedTower: NULL or a pole
    moveCount,          \* gameState.moveCount
    startTime,          \* gameState.startTime: NO_TIME or Date.now() at start
    timerInterval,      \* gameState.timerInterval: NO_TIME (null) or a handle
    diskCount,          \* gameState.diskCount
    gameWon,            \* gameState.gameWon
    selectedDiskCount,  \* the desired disk count of the next game
    intervals,          \* number of live setInterval timers of the page
    timerText,          \* text of the #timer element
    message,            \* #message element: [text, class]
    highScores,         \* localStorage hanoi_highscores: key -> record
    now,                \* Date.now()
    keysEntered,        \* keys of the canonical solution entered so far
    lastCall,           \* the last direct call of a function, with its result
    leaderboard,        \* remote store leaderboard/<diskCount>: list of scores
    savedDiskCount,     \* localStorage hanoi_disk_count: a string, "" if absent
    storageThrows,      \* localStorage throws on every read and write
    lookup,             \* the qualification lookup handleWin is awaiting
    modal,              \* session -> its name modal
    submits             \* session -> its call of submitToLeaderboard

gameVars == <<towers, selectedTower, moveCount, startTime, timerInterval,
              diskCount, gameWon>>
vars == <<towers, selectedTower, moveCount, startTime, timerInterval,
          diskCount, gameWon, selectedDiskCount, intervals, timerText,
          message, highScores, now, keysEntered, lastCall, leaderboard,
          savedDiskCount, storageThrows, lookup, modal, submits>>

\* The name modal and the calls in flight to the remote store.
remoteVars == <<lookup, modal, submits>>

(***************************************************************************)
(* Pure helpers.                                                           *)
(***************************************************************************)
Max(a, b) == IF a > b THEN a ELSE b
Min(a, b) == IF a < b THEN a ELSE b

RECURSIVE Pow2(_)
Pow2(n) == IF n = 0 THEN 1 ELSE 2 * Pow2(n - 1)

\* Mutant: the subtraction is left out.
getMinimalMoves_NoMinusOne(n) == Pow2(n)

getMinimalMoves(n) == Pow2(n) - 1

\* String(n).padStart(2, '0')
PadStart2(n) == IF n < 10 THEN "0" \o ToString(n) ELSE ToString(n)

formatTime(totalSeconds) ==
    PadStart2(totalSeconds \div 60) \o ":" \o PadStart2(totalSeconds % 60)

\* Math.floor((Date.now() - gameState.startTime) / 1000)
ElapsedSeconds(start) == (now - start) \div MS_PER_SECOND

Push(s, d) == Append(s, d)
Pop(s) == SubSeq(s, 1, Len(s) - 1)
Top(s) == s[Len(s)]

PROMPT == "Press 1/F, 2/J, or 3/K to select a tower"
showMessage(text) == [text |-> text, class |-> "message"]
showError(text) == [text |-> text, class |-> "message error"]

\* The tower of numDisks disks that initGame builds on pole 0.
InitialTower(numDisks) == [i \in 1..numDisks |-> numDisks + 1 - i]

(***************************************************************************)
(* Timer.                                                                  *)
(***************************************************************************)
\* The text updateTimer() writes, for a given start instant.
TimerTextOf(start) ==
    "TIME: " \o formatTime(IF start # NO_TIME THEN ElapsedSeconds(start) ELSE 0)

\* The interval callback: only the display changes.
updateTimer ==
    /\ intervals > 0
    /\ timerText' = TimerTextOf(startTime)
    /\ UNCHANGED <<gameVars, selectedDiskCount, intervals, message,
                   highScores, now, keysEntered, lastCall, leaderboard, savedDiskCount, storageThrows,
                   remoteVars>>

\* The wall clock advances between two events.
AdvanceTime ==
    \E d \in ClockSteps :
        /\ now + d <= MaxNow
        /\ now' = now + d
        /\ UNCHANGED <<gameVars, selectedDiskCount, intervals, timerText,
                       message, highScores, keysEntered, lastCall, leaderboard, savedDiskCount, storageThrows,
                   remoteVars>>

(***************************************************************************)
(* Score ledger.                                                           *)
(***************************************************************************)
\* The record type checkAndSaveHighScore returns.
RecordTypeOf(scores, n, moves, timeSeconds) ==
    LET key == ToString(n)
        isPerfect == moves = getMinimalMoves(n)
    IN  IF key \notin DOMAIN scores
        THEN IF isPerfect THEN "perfect" ELSE "first"
        ELSE IF moves < scores[key].moves
             THEN IF isPerfect THEN "perfect" ELSE "moves"
             ELSE IF moves = scores[key].moves /\ timeSeconds < scores[key].time
                  THEN "time"
                  ELSE "none"

\* The mapping checkAndSaveHighScore leaves in the store.
ScoresAfter(scores, n, moves, timeSeconds) ==
    LET key == ToString(n)
    IN  IF key \notin DOMAIN scores
        THEN (key :> [moves |-> moves, time |-> timeSeconds, timestamp |-> now])
                 @@ scores
        ELSE IF moves < scores[key].moves
             THEN [scores EXCEPT ![key] =
                      [moves |-> moves, time |-> timeSeconds, timestamp |-> now]]
             ELSE IF moves = scores[key].moves /\ timeSeconds < scores[key].time
                  THEN [scores EXCEPT ![key].time = timeSeconds,
                                      ![key].timestamp = now]
                  ELSE scores

\* loadHighScores(): the stored mapping, or {} when the store throws.
loadHighScores == IF storageThrows THEN <<>> ELSE highScores

\* saveHighScores(scores): the exception of a throwing store is swallowed.
saveHighScores(scores) ==
    highScores' = IF storageThrows THEN highScores ELSE scores

(***************************************************************************)
(* Puzzle.                                                                 *)
(***************************************************************************)
\* Mutant: the size comparison is left out.
isValidMove_NoSizeCheck(fromTower, toTower) == Len(towers[fromTower]) # 0

isValidMove(fromTower, toTower) ==
    LET fromDisks == towers[fromTower]
        toDisks == towers[toTower]
    IN  IF Len(fromDisks) = 0 THEN FALSE
        ELSE IF Len(toDisks) = 0 THEN TRUE
        ELSE IF Top(fromDisks) > Top(toDisks) THEN FALSE
        ELSE TRUE

\* The error isValidMove shows when it returns false.
isValidMoveError(fromTower, toTower) ==
    IF Len(towers[fromTower]) = 0
    THEN showError("Source tower is empty")
    ELSE showError("Cannot place larger disk on smaller disk")

\* The suffix and class handleWin gives the win message.
WinSuffix(type, isPerfect) ==
    IF type = "perfect" THEN " | PERFECT SCORE!"
    ELSE IF type = "moves" THEN " | NEW RECORD!"
    ELSE IF type = "time" THEN " | FASTER TIME!"
    ELSE IF type = "first" THEN " | FIRST COMPLETION!"
    ELSE IF isPerfect THEN " | PERFECT SCORE!"
    ELSE ""

WinClass(type, isPerfect) ==
    IF type = "perfect" THEN "message perfect"
    ELSE IF type \in {"moves", "time", "first"} THEN "message record"
    ELSE IF isPerfect THEN "message perfect"
    ELSE "message win"

\* Mutant: a full pole 1 counts as a win too.
checkWin_AnyPole(tw) == Len(tw[1]) = diskCount \/ Len(tw[2]) = diskCount

\* checkWin() on the towers a move leaves.
checkWin(tw) == Len(tw[2]) = diskCount

\* Mutant: the ledger is read before the flag is set, and the exception of a
\* throwing store ends the handler.
handleWin_StoreFirst(moves) ==
    LET elapsedSeconds == ElapsedSeconds(startTime)
        type == RecordTypeOf(loadHighScores, diskCount, moves, elapsedSeconds)
        isPerfect == moves = getMinimalMoves(diskCount)
    IN  IF storageThrows
        THEN UNCHANGED <<gameWon, timerInterval, intervals, highScores, message>>
        ELSE /\ gameWon' = TRUE
             /\ timerInterval' = NO_TIME
             /\ intervals' = IF timerInterval # NO_TIME
                             THEN intervals - 1
                             ELSE intervals
             /\ IF type # "none"
                THEN saveHighScores(ScoresAfter(loadHighScores, diskCount, moves,
                                                elapsedSeconds))
                ELSE UNCHANGED highScores
             /\ message' = [text |-> "YOU WIN! Time: " \o formatTime(elapsedSeconds)
                                      \o " | Moves: " \o ToString(moves)
                                      \o WinSuffix(type, isPerfect),
                            class |-> WinClass(type, isPerfect)]

\* handleWin(), up to its await, after a move that leaves moveCount = moves.
handleWin(moves) ==
    LET elapsedSeconds == ElapsedSeconds(startTime)
        type == RecordTypeOf(loadHighScores, diskCount, moves, elapsedSeconds)
        isPerfect == moves = getMinimalMoves(diskCount)
    IN  /\ gameWon' = TRUE
        /\ timerInterval' = NO_TIME
        /\ intervals' = IF timerInterval # NO_TIME THEN intervals - 1 ELSE intervals
        /\ IF type # "none"
           THEN saveHighScores(ScoresAfter(loadHighScores, diskCount, moves,
                                           elapsedSeconds))
           ELSE UNCHANGED highScores
        /\ message' = [text |-> "YOU WIN! Time: " \o formatTime(elapsedSeconds)
                                 \o " | Moves: " \o ToString(moves)
                                 \o WinSuffix(type, isPerfect),
                       class |-> WinClass(type, isPerfect)]

\* Mutant: the move counter is not incremented.
moveDisk_NoCount(fromTower, toTower) ==
    LET disk == Top(towers[fromTower])
        popped == [towers EXCEPT ![fromTower] = Pop(@)]
        tw == [popped EXCEPT ![toTower] = Push(@, disk)]
    IN  /\ towers' = tw
        /\ moveCount' = moveCount
        /\ IF checkWin(tw)
           THEN handleWin(moveCount)
           ELSE /\ message' = showMessage(PROMPT)
                /\ UNCHANGED <<gameWon, timerInterval, intervals, highScores>>

moveDisk(fromTower, toTower) ==
    LET disk == Top(towers[fromTower])
        popped == [towers EXCEPT ![fromTower] = Pop(@)]
        tw == [popped EXCEPT ![toTower] = Push(@, disk)]
    IN  /\ towers' = tw
        /\ moveCount' = moveCount + 1
        /\ IF checkWin(tw)
           THEN handleWin(moveCount + 1)
           ELSE /\ message' = showMessage(PROMPT)
                /\ UNCHANGED <<gameWon, timerInterval, intervals, highScores>>

\* Mutant: a new game keeps the clock of the game before.
initGame_KeepsClock(numDisks) ==
    LET n == Max(MIN_DISKS, Min(MAX_DISKS, numDisks))
    IN  /\ towers' = [p \in Poles |-> IF p = 0 THEN InitialTower(n) ELSE <<>>]
        /\ selectedTower' = NULL
        /\ moveCount' = 0
        /\ startTime' = startTime
        /\ gameWon' = FALSE
        /\ diskCount' = n
        /\ selectedDiskCount' = n
        /\ timerInterval' = NO_TIME
        /\ intervals' = IF timerInterval # NO_TIME THEN intervals - 1 ELSE intervals
        /\ timerText' = "TIME: " \o formatTime(0)
        /\ message' = showMessage(PROMPT)

initGame(numDisks) ==
    LET n == Max(MIN_DISKS, Min(MAX_DISKS, numDisks))
    IN  /\ towers' = [p \in Poles |-> IF p = 0 THEN InitialTower(n) ELSE <<>>]
        /\ selectedTower' = NULL
        /\ moveCount' = 0
        /\ startTime' = NO_TIME
        /\ gameWon' = FALSE
        /\ diskCount' = n
        /\ selectedDiskCount' = n
        /\ timerInterval' = NO_TIME
        /\ intervals' = IF timerInterval # NO_TIME THEN intervals - 1 ELSE intervals
        /\ timerText' = "TIME: " \o formatTime(0)
        /\ message' = showMessage(PROMPT)

startNewGame == initGame(selectedDiskCount)

\* saveDiskCount(), after selectedDiskCount has been given its new value.
saveDiskCount ==
    savedDiskCount' = IF storageThrows
                      THEN savedDiskCount
                      ELSE ToString(selectedDiskCount')

incrementDiskCount ==
    IF selectedDiskCount < MAX_DISKS
    THEN /\ selectedDiskCount' = selectedDiskCount + 1
         /\ saveDiskCount
    ELSE UNCHANGED <<selectedDiskCount, savedDiskCount>>

decrementDiskCount ==
    IF selectedDiskCount > MIN_DISKS
    THEN /\ selectedDiskCount' = selectedDiskCount - 1
         /\ saveDiskCount
    ELSE UNCHANGED <<selectedDiskCount, savedDiskCount>>

startTimer ==
    /\ startTime' = now
    /\ timerInterval' = 1
    /\ intervals' = intervals + 1

TowerKeys == {"1", "2", "3", "f", "j", "k", "F", "J", "K"}
towerMap(key) ==
    CASE key \in {"1", "f", "F"} -> 0
      [] key \in {"2", "j", "J"} -> 1
      [] key \in {"3", "k", "K"} -> 2

\* Mutant: an empty tower can be selected.
selectSource_NoEmptyCheck(towerIndex) ==
    /\ IF startTime = NO_TIME
       THEN startTimer
       ELSE UNCHANGED <<startTime, timerInterval, intervals>>
    /\ selectedTower' = towerIndex
    /\ message' = showMessage("Tower " \o ToString(towerIndex + 1)
                               \o " selected. Choose destination tower.")
    /\ UNCHANGED <<towers, moveCount, diskCount, gameWon>>

\* Mutant: every selection starts the timer again.
selectSource_RestartsClock(towerIndex) ==
    IF Len(towers[towerIndex]) = 0
    THEN /\ message' = showError("Can't select an empty tower")
         /\ UNCHANGED <<gameVars, intervals>>
    ELSE /\ startTimer
         /\ selectedTower' = towerIndex
         /\ message' = showMessage("Tower " \o ToString(towerIndex + 1)
                                    \o " selected. Choose destination tower.")
         /\ UNCHANGED <<towers, moveCount, diskCount, gameWon>>

\* First selection: choose the source tower.
selectSource(towerIndex) ==
    IF Len(towers[towerIndex]) = 0
    THEN /\ message' = showError("Can't select an empty tower")
         /\ UNCHANGED <<gameVars, intervals>>
    ELSE /\ IF startTime = NO_TIME
            THEN startTimer
            ELSE UNCHANGED <<startTime, timerInterval, intervals>>
         /\ selectedTower' = towerIndex
         /\ message' = showMessage("Tower " \o ToString(towerIndex + 1)
                                    \o " selected. Choose destination tower.")
         /\ UNCHANGED <<towers, moveCount, diskCount, gameWon>>

\* Mutant: the same pole is treated as a destination like any other.
selectDestination_NoCancel(toTower) ==
    LET fromTower == selectedTower
    IN  /\ selectedTower' = NULL
        /\ IF isValidMove(fromTower, toTower)
           THEN moveDisk(fromTower, toTower)
           ELSE /\ message' = isValidMoveError(fromTower, toTower)
                /\ UNCHANGED <<towers, moveCount, gameWon, timerInterval,
                               intervals, highScores>>
        /\ UNCHANGED <<startTime, diskCount>>

\* Second selection: choose the destination tower.
selectDestination(toTower) ==
    LET fromTower == selectedTower
    IN  /\ selectedTower' = NULL
        /\ IF fromTower = toTower
           THEN /\ message' = showMessage(PROMPT)
                /\ UNCHANGED <<towers, moveCount, gameWon, timerInterval,
                               intervals, highScores>>
           ELSE IF isValidMove(fromTower, toTower)
                THEN moveDisk(fromTower, toTower)
                ELSE /\ message' = isValidMoveError(fromTower, toTower)
                     /\ UNCHANGED <<towers, moveCount, gameWon, timerInterval,
                                    intervals, highScores>>
        /\ UNCHANGED <<startTime, diskCount>>

\* Mutant: pole keys are handled after a win as before it.
gameplayKey_NoWonCheck(key) ==
    IF key \notin TowerKeys
    THEN UNCHANGED <<gameVars, intervals, message, highScores>>
    ELSE IF selectedTower = NULL
    THEN selectSource(towerMap(key)) /\ UNCHANGED highScores
    ELSE selectDestination(towerMap(key))

\* Lines 846-894 of handleKeyPress: a key that is not a command key.
gameplayKey(key) ==
    IF gameWon \/ key \notin TowerKeys
    THEN UNCHANGED <<gameVars, intervals, message, highScores>>
    ELSE IF selectedTower = NULL
    THEN selectSource(towerMap(key)) /\ UNCHANGED highScores
    ELSE selectDestination(towerMap(key))

\* The keys the player enters; "x" stands for every key without a binding.
NewGameKeys == {"n", "N"}
DialKeys == {"+", "=", "-", "_"}
Keys == TowerKeys \cup NewGameKeys \cup DialKeys \cup {"h", "H", "t", "T", "x"}

\* Mutant: the dial builds the game for the new count at once.
handleKeyPress_DialRestarts(key) ==
    IF key \in NewGameKeys
    THEN startNewGame /\ UNCHANGED <<highScores, savedDiskCount>>
    ELSE IF key \in {"+", "="}
    THEN /\ initGame(selectedDiskCount + 1)
         /\ savedDiskCount' = ToString(selectedDiskCount')
         /\ UNCHANGED highScores
    ELSE IF key \in {"-", "_"}
    THEN /\ initGame(selectedDiskCount - 1)
         /\ savedDiskCount' = ToString(selectedDiskCount')
         /\ UNCHANGED highScores
    ELSE IF key \in {"h", "H", "t", "T"}
    THEN UNCHANGED <<gameVars, selectedDiskCount, intervals, timerText,
                     message, highScores, savedDiskCount>>
    ELSE /\ gameplayKey(key)
         /\ UNCHANGED <<selectedDiskCount, timerText, savedDiskCount>>

handleKeyPress(key) ==
    IF key \in NewGameKeys
    THEN startNewGame /\ UNCHANGED <<highScores, savedDiskCount>>
    ELSE IF key \in {"+", "="}
    THEN /\ incrementDiskCount
         /\ UNCHANGED <<gameVars, intervals, timerText, message, highScores>>
    ELSE IF key \in {"-", "_"}
    THEN /\ decrementDiskCount
         /\ UNCHANGED <<gameVars, intervals, timerText, message, highScores>>
    ELSE IF key \in {"h", "H", "t", "T"}
    \* score panel and theme: presentation only
    THEN UNCHANGED <<gameVars, selectedDiskCount, intervals, timerText,
                     message, highScores, savedDiskCount>>
    ELSE /\ gameplayKey(key)
         /\ UNCHANGED <<selectedDiskCount, timerText, savedDiskCount>>

clearSelection == selectedTower' = NULL

handleKeyDown(key) ==
    /\ IF key = "Escape" /\ selectedTower # NULL
       THEN /\ clearSelection
            /\ message' = showMessage(PROMPT)
       ELSE UNCHANGED <<selectedTower, message>>
    /\ UNCHANGED <<towers, moveCount, startTime, timerInterval, diskCount,
                   gameWon, selectedDiskCount, intervals, timerText,
                   highScores, savedDiskCount>>

(***************************************************************************)
(* Start-up.                                                               *)
(***************************************************************************)
\* parseInt(string): leading white space, an optional sign, an optional 0x,
\* then the longest run of digits; NaN when there is no digit.
NaN == [nan |-> TRUE, val |-> 0]
isNaN(v) == v.nan
IsDigit(c) == c \in {"0", "1", "2", "3", "4", "5", "6", "7", "8", "9"}
IsHexDigit(c) == IsDigit(c) \/ c \in {"a", "b", "c", "d", "e", "f"}
DigitOf(c) ==
    CASE c = "0" -> 0 [] c = "1" -> 1 [] c = "2" -> 2 [] c = "3" -> 3
      [] c = "4" -> 4 [] c = "5" -> 5 [] c = "6" -> 6 [] c = "7" -> 7
      [] c = "8" -> 8 [] c = "9" -> 9 [] c = "a" -> 10 [] c = "b" -> 11
      [] c = "c" -> 12 [] c = "d" -> 13 [] c = "e" -> 14 [] c = "f" -> 15

RECURSIVE TrimStart(_)
TrimStart(s) == IF s # "" /\ Head(s) = " " THEN TrimStart(Tail(s)) ELSE s

RECURSIVE ParseDigits(_, _, _)
ParseDigits(s, radix, acc) ==
    IF s = "" \/ ~IsHexDigit(Head(s)) \/ DigitOf(Head(s)) >= radix
    THEN acc
    ELSE ParseDigits(Tail(s), radix, radix * acc + DigitOf(Head(s)))

HasDigit(s, radix) == s # "" /\ IsHexDigit(Head(s)) /\ DigitOf(Head(s)) < radix

parseInt(string) ==
    LET s == TrimStart(string)
        signed == s # "" /\ Head(s) \in {"+", "-"}
        sign == IF s # "" /\ Head(s) = "-" THEN -1 ELSE 1
        body == IF signed THEN Tail(s) ELSE s
        hex == Len(body) >= 2 /\ SubSeq(body, 1, 2) \in {"0x", "0X"}
        digits == IF hex THEN SubSeq(body, 3, Len(body)) ELSE body
        radix == IF hex THEN 16 ELSE 10
    IN  IF HasDigit(digits, radix)
        THEN [nan |-> FALSE, val |-> sign * ParseDigits(digits, radix, 0)]
        ELSE NaN

\* What localStorage may hold under hanoi_disk_count when the page loads:
\* nothing (""), or a text some earlier session or another page wrote.
SavedDiskCounts == {"", "2", "3", "4", "11"}

\* Mutant: the range of the saved count is not checked.
loadSavedDiskCount_NoRangeCheck(saved) ==
    IF storageThrows \/ saved = "" \/ isNaN(parseInt(saved))
    THEN DEFAULT_DISKS
    ELSE parseInt(saved).val

\* loadSavedDiskCount(), for the text getItem returns: the default when the
\* store throws, when there is no text and when the count is NaN or out of
\* range.
loadSavedDiskCount(saved) ==
    IF storageThrows \/ saved = "" \/ isNaN(parseInt(saved))
    THEN DEFAULT_DISKS
    ELSE IF parseInt(saved).val >= MIN_DISKS /\ parseInt(saved).val <= MAX_DISKS
         THEN parseInt(saved).val
         ELSE DEFAULT_DISKS

\* No function has been called directly.
NoCall == [op |-> "none"]

\* No lookup is awaited, no modal is open, no submission is in flight.
Sessions == {1, 2}
NoLookup == [pending |-> FALSE]
ModalHidden == [open |-> FALSE]
NoSubmit == [phase |-> "none"]

\* The state init() leaves for a saved disk count and a store that throws
\* or not.
InitWith(saved, throws) ==
    LET n == Max(MIN_DISKS, Min(MAX_DISKS, loadSavedDiskCount(saved)))
    IN  /\ savedDiskCount = saved
        /\ storageThrows = throws
        /\ lookup = NoLookup
        /\ modal = [s \in Sessions |-> ModalHidden]
        /\ submits = [s \in Sessions |-> NoSubmit]
        /\ towers = [p \in Poles |-> IF p = 0 THEN InitialTower(n) ELSE <<>>]
        /\ selectedTower = NULL
        /\ moveCount = 0
        /\ startTime = NO_TIME
        /\ timerInterval = NO_TIME
        /\ diskCount = n
        /\ gameWon = FALSE
        /\ selectedDiskCount = n
        /\ intervals = 0
        /\ timerText = "TIME: " \o formatTime(0)
        /\ message = showMessage(PROMPT)
        /\ highScores = <<>>
        /\ now = PageLoadTime
        /\ keysEntered = 0
        /\ lastCall = NoCall
        /\ leaderboard = [d \in MIN_DISKS..MAX_DISKS |-> <<>>]

InitFor(saved) == InitWith(saved, FALSE)

Init == \E saved \in SavedDiskCounts : InitFor(saved)

(***************************************************************************)
(* The player and the environment.                                         *)
(***************************************************************************)
\* The player stops entering pole keys after MaxMoves moves and dials the
\* desired disk count no higher than MaxDial.
PlayerEnters(key) ==
    /\ key \in TowerKeys => moveCount < MaxMoves
    /\ key \in {"+", "="} => selectedDiskCount < MaxDial

KeyPress ==
    \E key \in Keys :
        /\ PlayerEnters(key)
        /\ handleKeyPress(key)
        /\ UNCHANGED <<now, keysEntered, lastCall, leaderboard, storageThrows,
                       remoteVars>>

KeyDown ==
    \E key \in {"Escape", "x"} :
        /\ handleKeyDown(key)
        /\ UNCHANGED <<now, keysEntered, lastCall, leaderboard, storageThrows,
                       remoteVars>>

Next ==
    \/ KeyPress
    \/ KeyDown
    \/ updateTimer
    \/ AdvanceTime

Spec == Init /\ [][Next]_vars

\* Every puzzle size, the desired disk count left as loaded.
InitSizes == \E saved \in MIN_DISKS..MAX_DISKS : InitFor(ToString(saved))

KeyPressSameSize ==
    \E key \in Keys \ DialKeys :
        /\ PlayerEnters(key)
        /\ handleKeyPress(key)
        /\ UNCHANGED <<now, keysEntered, lastCall, leaderboard, storageThrows,
                       remoteVars>>

NextSizes ==
    \/ KeyPressSameSize
    \/ KeyDown
    \/ updateTimer
    \/ AdvanceTime

SpecSizes == InitSizes /\ [][NextSizes]_vars

\* A direct call of isValidMove(fromTower, toTower): it reads the towers and
\* shows an error when it returns false.
isValidMoveCall(fromTower, toTower) ==
    /\ message' = IF isValidMove(fromTower, toTower)
                  THEN message
                  ELSE isValidMoveError(fromTower, toTower)
    /\ UNCHANGED <<gameVars, selectedDiskCount, intervals, timerText,
                   highScores, now, keysEntered, lastCall, leaderboard, savedDiskCount, storageThrows,
                   remoteVars>>

ValidatorCall == \E fromTower, toTower \in Poles : isValidMoveCall(fromTower, toTower)

InitValidator == \E saved \in {"3", "4"} : InitFor(saved)

NextValidator ==
    \/ KeyPressSameSize
    \/ KeyDown
    \/ updateTimer
    \/ AdvanceTime
    \/ ValidatorCall

SpecValidator == InitValidator /\ [][NextValidator]_vars

\* The canonical solution of the 3-disk puzzle, as the keys 1-3, 1-2, 3-2,
\* 1-3, 2-1, 2-3, 1-3, entered into a freshly loaded 3-disk game.
CanonicalKeys ==
    <<"1", "3", "1", "2", "3", "2", "1", "3", "2", "1", "2", "3", "1", "3">>

EnterCanonicalKey ==
    /\ keysEntered < Len(CanonicalKeys)
    /\ handleKeyPress(CanonicalKeys[keysEntered + 1])
    /\ keysEntered' = keysEntered + 1
    /\ UNCHANGED <<now, lastCall, leaderboard, storageThrows, remoteVars>>

InitCanonical == InitFor("3")

NextCanonical ==
    \/ EnterCanonicalKey
    \/ updateTimer
    \/ AdvanceTime

SpecCanonical == InitCanonical /\ [][NextCanonical]_vars

(***************************************************************************)
(* The disk count control: the dial, the new-game key and a reload of the  *)
(* page, with no bound on the dial and a store that throws or not.         *)
(***************************************************************************)
\* What another page or an earlier version may have left in the store.
DialSavedCounts == {"", "2", "3", "10", "11", "abc"}

\* init(), when the page is loaded again: the saved count is read and the
\* game is built for it.
init ==
    /\ initGame(loadSavedDiskCount(savedDiskCount))
    /\ lastCall' = [op |-> "init", saved |-> savedDiskCount]
    /\ UNCHANGED <<highScores, now, keysEntered, leaderboard, savedDiskCount,
                   storageThrows, remoteVars>>

\* A key of the disk count control, recorded as the last call.
DialKeyPress ==
    \E key \in DialKeys \cup NewGameKeys :
        /\ handleKeyPress(key)
        /\ lastCall' = [op |-> "handleKeyPress", key |-> key]
        /\ UNCHANGED <<now, keysEntered, leaderboard, storageThrows, remoteVars>>

InitDial ==
    \E saved \in DialSavedCounts, throws \in BOOLEAN : InitWith(saved, throws)

NextDial ==
    \/ DialKeyPress
    \/ init

SpecDial == InitDial /\ [][NextDial]_vars

(***************************************************************************)
(* Import of a score file.                                                 *)
(***************************************************************************)
\* JavaScript values of a parsed file.  A field of an entry is a number, a
\* string or undefined (absent); an entry is an object with the fields
\* moves, time and timestamp, null, or a string.
Num(n) == [type |-> "number", val |-> n]
Str == [type |-> "string", val |-> 0]
Undefined == [type |-> "undefined", val |-> 0]
Obj(moves, time, timestamp) ==
    [type |-> "object", moves |-> moves, time |-> time, timestamp |-> timestamp]
JNull == [type |-> "null"]
JString == [type |-> "string"]

\* typeof: null is an 'object'.
typeof(v) == IF v.type = "null" THEN "object" ELSE v.type

\* Truthiness of a field: undefined, 0 and the empty string are falsy.
Truthy(v) == v.type = "number" /\ v.val # 0

\* The parsed file: the wrapped form {version, exportedAt, scores}, the bare
\* mapping, an array, null, or a text JSON.parse rejects.  The entries of a
\* mapping are listed in the order of Object.entries.
Wrapped(version, scores) == [form |-> "wrapped", version |-> version, scores |-> scores]
Bare(scores) == [form |-> "bare", scores |-> scores]
JArray == [form |-> "array"]
NullFile == [form |-> "null"]
NotJSON == [form |-> "notJSON"]

\* One round of the loop of validateAndExtractScores: "ok" when the entry
\* passes, "null" when the function returns null, "throw" when reading a
\* field of a null entry throws.
validateEntry_NoMinimum(key, value) ==
    LET dc == parseInt(key)
    IN  IF isNaN(dc) \/ dc.val < MIN_DISKS \/ dc.val > MAX_DISKS THEN "null"
        ELSE IF typeof(value) # "object" THEN "null"
        ELSE IF value.type = "null" THEN "throw"
        ELSE IF typeof(value.moves) # "number" \/ typeof(value.time) # "number"
             THEN "null"
        ELSE IF value.time.val < 0 THEN "null"
        ELSE "ok"

validateEntry_NoTimeCheck(key, value) ==
    LET dc == parseInt(key)
    IN  IF isNaN(dc) \/ dc.val < MIN_DISKS \/ dc.val > MAX_DISKS THEN "null"
        ELSE IF typeof(value) # "object" THEN "null"
        ELSE IF value.type = "null" THEN "throw"
        ELSE IF typeof(value.moves) # "number" THEN "null"
        ELSE IF value.moves.val < getMinimalMoves(dc.val) THEN "null"
        ELSE "ok"

validateEntry(key, value) ==
    LET dc == parseInt(key)
    IN  IF isNaN(dc) \/ dc.val < MIN_DISKS \/ dc.val > MAX_DISKS THEN "null"
        ELSE IF typeof(value) # "object" THEN "null"
        ELSE IF value.type = "null" THEN "throw"
        ELSE IF typeof(value.moves) # "number" \/ typeof(value.time) # "number"
             THEN "null"
        ELSE IF value.moves.val < getMinimalMoves(dc.val) THEN "null"
        ELSE IF value.time.val < 0 THEN "null"
        ELSE "ok"

\* The loop over Object.entries(scores), from entry i on.
RECURSIVE validateEntries(_, _)
validateEntries(entries, i) ==
    IF i > Len(entries)
    THEN "ok"
    ELSE LET r == validateEntry(entries[i].key, entries[i].value)
         IN  IF r = "ok" THEN validateEntries(entries, i + 1) ELSE r

\* validateAndExtractScores(data): "scores" when it returns the mapping,
\* "null" when it returns null, "throw" when it throws.  An object that is
\* not recognised as wrapped is read as a bare mapping, whose first key is
\* then "version".
validateAndExtractScores(data) ==
    IF data.form = "null"
    THEN "throw"
    ELSE IF data.form = "wrapped" /\ Truthy(data.version)
    THEN IF validateEntries(data.scores, 1) = "ok"
         THEN "scores"
         ELSE validateEntries(data.scores, 1)
    ELSE IF data.form = "wrapped"
    THEN validateEntry("version", data.version)
    ELSE IF data.form = "bare"
    THEN IF validateEntries(data.scores, 1) = "ok"
         THEN "scores"
         ELSE validateEntries(data.scores, 1)
    ELSE "null"

\* The record the store holds for an adopted entry: its moves and time, and
\* its timestamp unless that is missing, then Date.now().
importedRecord(importedScore, dateNow) ==
    [moves |-> importedScore.moves.val,
     time |-> importedScore.time.val,
     timestamp |-> IF Truthy(importedScore.timestamp)
                   THEN importedScore.timestamp.val
                   ELSE dateNow]

\* One round of the loop of mergeHighScores.
mergeEntry_TieAdopts(currentScores, key, importedScore, dateNow) ==
    IF key \notin DOMAIN currentScores
    THEN (key :> importedRecord(importedScore, dateNow)) @@ currentScores
    ELSE IF \/ importedScore.moves.val < currentScores[key].moves
            \/ /\ importedScore.moves.val = currentScores[key].moves
               /\ importedScore.time.val <= currentScores[key].time
         THEN [currentScores EXCEPT
                  ![key] = importedRecord(importedScore, dateNow)]
         ELSE currentScores

mergeEntry_FewerMovesOnly(currentScores, key, importedScore, dateNow) ==
    IF key \notin DOMAIN currentScores
    THEN (key :> importedRecord(importedScore, dateNow)) @@ currentScores
    ELSE IF importedScore.moves.val < currentScores[key].moves
         THEN [currentScores EXCEPT
                  ![key] = importedRecord(importedScore, dateNow)]
         ELSE currentScores

mergeEntry(currentScores, key, importedScore, dateNow) ==
    IF key \notin DOMAIN currentScores
    THEN (key :> importedRecord(importedScore, dateNow)) @@ currentScores
    ELSE IF \/ importedScore.moves.val < currentScores[key].moves
            \/ /\ importedScore.moves.val = currentScores[key].moves
               /\ importedScore.time.val < currentScores[key].time
         THEN [currentScores EXCEPT
                  ![key] = importedRecord(importedScore, dateNow)]
         ELSE currentScores

\* The loop of mergeHighScores over Object.entries(importedScores), from
\* entry i on.
RECURSIVE mergeEntries(_, _, _, _)
mergeEntries(currentScores, entries, i, dateNow) ==
    IF i > Len(entries)
    THEN currentScores
    ELSE mergeEntries(mergeEntry(currentScores, entries[i].key,
                                 entries[i].value, dateNow),
                      entries, i + 1, dateNow)

\* The mapping mergeHighScores saves.
mergeHighScores(importedScores) ==
    mergeEntries(loadHighScores, importedScores, 1, now)

\* What reader.onload does with the text of the file: "scores" when the file
\* is merged, "null" when validation returns null, "throw" when JSON.parse or
\* validation throws.
importOutcome(data) ==
    IF data.form = "notJSON" THEN "throw" ELSE validateAndExtractScores(data)

\* The name of the error the catch clause reports.
ErrorName(data) == IF data.form = "notJSON" THEN "SyntaxError" ELSE "TypeError"

\* The mapping the store holds after reader.onload: the merge when the file
\* is accepted and the store takes it, else the mapping as it was.
importedLedger(data) ==
    IF importOutcome(data) = "scores" /\ ~storageThrows
    THEN mergeHighScores(data.scores)
    ELSE highScores

\* reader.onload of importHighScores, for a file that parses to data.
importHighScores(data) ==
    /\ highScores' = importedLedger(data)
    /\ message' = CASE importOutcome(data) = "scores" ->
                         showMessage("High scores imported and merged")
                    [] importOutcome(data) = "null" ->
                         showError("Invalid file format")
                    [] importOutcome(data) = "throw" ->
                         showError("Could not read file: " \o ErrorName(data))
    /\ lastCall' = [op |-> "importHighScores", result |-> importOutcome(data),
                    saved |-> importOutcome(data) = "scores"]
    /\ UNCHANGED <<gameVars, selectedDiskCount, intervals, timerText, now,
                   keysEntered, leaderboard, savedDiskCount, storageThrows,
                   remoteVars>>

\* A direct call of checkAndSaveHighScore(diskCount, moves, timeSeconds): the
\* store is written only when the outcome is a record.
SavesHighScore_Always(recordType) == TRUE

SavesHighScore(recordType) == recordType # "none"

checkAndSaveHighScore(n, moves, timeSeconds) ==
    /\ IF SavesHighScore(RecordTypeOf(loadHighScores, n, moves, timeSeconds))
       THEN saveHighScores(ScoresAfter(loadHighScores, n, moves, timeSeconds))
       ELSE UNCHANGED highScores
    /\ lastCall' = [op |-> "checkAndSaveHighScore",
                    result |-> RecordTypeOf(loadHighScores, n, moves, timeSeconds),
                    saved |-> SavesHighScore(
                                 RecordTypeOf(loadHighScores, n, moves, timeSeconds))]
    /\ UNCHANGED <<gameVars, selectedDiskCount, intervals, timerText, message,
                   now, keysEntered, leaderboard, savedDiskCount, storageThrows,
                   remoteVars>>

(***************************************************************************)
(* The ledger under direct calls and imports.                              *)
(***************************************************************************)
\* Direct calls of checkAndSaveHighScore offer up to MaxExtraMoves moves
\* above the minimum and times of 1..MaxSeconds seconds.
MaxExtraMoves == 1
MaxSeconds == 2

LedgerDisks == {3, 4}

RecordOutcome ==
    \E n \in LedgerDisks, extra \in 0..MaxExtraMoves, timeSeconds \in 1..MaxSeconds :
        checkAndSaveHighScore(n, getMinimalMoves(n) + extra, timeSeconds)

\* The fields and entries of the files imported.
ImportMoves ==
    {Num(getMinimalMoves(3) - 1), Num(getMinimalMoves(3)), Num(getMinimalMoves(4)), Str}
ImportTimes == {Num(-1), Num(1), Num(MaxSeconds), Undefined}
OldTimestamp == PageLoadTime \div 2
ImportValues ==
    {Obj(m, t, Undefined) : m \in ImportMoves, t \in ImportTimes}
        \cup {Obj(Num(getMinimalMoves(3)), Num(MaxSeconds), Num(OldTimestamp))}
        \cup {JNull, JString}
ImportKeys == {"3", "4", "3abc", "x", "11"}

\* Entries for the keys "3" and "4": the first four pass validation under
\* "3", the third and fourth under "4" too.
LedgerValues ==
    {Obj(Num(getMinimalMoves(3)), Num(1), Undefined),
     Obj(Num(getMinimalMoves(3)), Num(MaxSeconds), Num(OldTimestamp)),
     Obj(Num(getMinimalMoves(4)), Num(1), Undefined),
     Obj(Num(getMinimalMoves(4) + 1), Num(1), Undefined),
     Obj(Num(getMinimalMoves(3) - 1), Num(1), Undefined)}
LedgerKeys == {"3", "4"}

\* Mappings of at most two entries, in the order of Object.entries: a key
\* that is an array index comes before the others, in ascending order.
FirstEntry == [key |-> "3", value |-> Obj(Num(getMinimalMoves(3)), Num(1), Undefined)]
Entries(keys, values) == {[key |-> k, value |-> v] : k \in keys, v \in values}
Mappings(keys, values) ==
    {<<>>} \cup {<<e>> : e \in Entries(keys, values)}
           \cup {<<FirstEntry, e>> : e \in Entries(keys \ {"3"}, values)}
BareFiles(keys, values) == {Bare(s) : s \in Mappings(keys, values)}
Files(keys, values) ==
    BareFiles(keys, values)
        \cup {Wrapped(Num(1), s) : s \in Mappings(keys, values)}
        \cup {JArray, NullFile, NotJSON}

ImportFiles == Files(ImportKeys, ImportValues)
LedgerFiles ==
    BareFiles(LedgerKeys, LedgerValues) \cup {Wrapped(Num(1), <<FirstEntry>>), NullFile}

ImportLedgerFile == \E data \in LedgerFiles : importHighScores(data)
ImportFile == \E data \in ImportFiles : importHighScores(data)

InitLedger == InitFor("3")

NextLedger ==
    \/ RecordOutcome
    \/ ImportLedgerFile
    \/ AdvanceTime

SpecLedger == InitLedger /\ [][NextLedger]_vars

\* Games of the 3-disk puzzle and imports of one-entry files in between.
PlayFiles == {Bare(<<e>>) : e \in Entries(LedgerKeys, LedgerValues)}

ImportPlayFile == \E data \in PlayFiles : importHighScores(data)

NextPlay ==
    \/ KeyPressSameSize
    \/ KeyDown
    \/ ImportPlayFile

SpecPlay == InitLedger /\ [][NextPlay]_vars

\* Imports of every file, into the ledger earlier imports left.
NextImport == ImportFile

SpecImport == InitLedger /\ [][NextImport]_vars

(***************************************************************************)
(* The page over a store that works or throws on every read and write:     *)
(* games and direct calls of checkAndSaveHighScore, each key and call      *)
(* recorded as the last call.  Over a store that throws the page starts    *)
(* with the default disk count, and the player dials down to 3.            *)
(***************************************************************************)
StorageKeyPress ==
    \E key \in TowerKeys \cup NewGameKeys \cup {"-", "x"} :
        /\ PlayerEnters(key)
        /\ handleKeyPress(key)
        /\ lastCall' = [op |-> "handleKeyPress", key |-> key]
        /\ UNCHANGED <<now, keysEntered, leaderboard, storageThrows, remoteVars>>

StorageKeyDown ==
    \E key \in {"Escape"} :
        /\ handleKeyDown(key)
        /\ lastCall' = [op |-> "handleKeyDown", key |-> key]
        /\ UNCHANGED <<now, keysEntered, leaderboard, storageThrows, remoteVars>>

StorageRecordOutcome ==
    \E extra \in 0..MaxExtraMoves, timeSeconds \in 1..MaxSeconds :
        checkAndSaveHighScore(3, getMinimalMoves(3) + extra, timeSeconds)

InitStorage == \E throws \in BOOLEAN : InitWith("3", throws)

NextStorage ==
    \/ StorageKeyPress
    \/ StorageKeyDown
    \/ StorageRecordOutcome

SpecStorage == InitStorage /\ [][NextStorage]_vars

(***************************************************************************)
(* Global leaderboard.                                                     *)
(***************************************************************************)
LEADERBOARD_SIZE == 10
\* The longest time a submission may carry, in seconds (24 hours).
MAX_TIME == 86400

\* The number n + 0.5, and Number.isInteger.
Fraction(n) == [type |-> "number", val |-> n, fraction |-> "1/2"]
isInteger(v) == v = Num(v.val)

validateLeaderboardSubmission_NoTimeLimit(diskCount_, moves, time) ==
    IF ~isInteger(diskCount_) \/ diskCount_.val < MIN_DISKS \/ diskCount_.val > MAX_DISKS
    THEN [valid |-> FALSE, reason |-> "Invalid disk count"]
    ELSE IF ~isInteger(moves) \/ moves.val < getMinimalMoves(diskCount_.val)
    THEN [valid |-> FALSE, reason |-> "Invalid move count"]
    ELSE IF ~isInteger(time) \/ time.val < 0
    THEN [valid |-> FALSE, reason |-> "Invalid time"]
    ELSE [valid |-> TRUE]

validateLeaderboardSubmission(diskCount_, moves, time) ==
    IF ~isInteger(diskCount_) \/ diskCount_.val < MIN_DISKS \/ diskCount_.val > MAX_DISKS
    THEN [valid |-> FALSE, reason |-> "Invalid disk count"]
    ELSE IF ~isInteger(moves) \/ moves.val < getMinimalMoves(diskCount_.val)
    THEN [valid |-> FALSE, reason |-> "Invalid move count"]
    ELSE IF ~isInteger(time) \/ time.val < 0 \/ time.val > MAX_TIME
    THEN [valid |-> FALSE, reason |-> "Invalid time"]
    ELSE [valid |-> TRUE]

\* The comparator of the sort is negative: a goes before b.
scoreBefore(a, b) == a.moves < b.moves \/ (a.moves = b.moves /\ a.time < b.time)

\* Array.prototype.sort with that comparator (stable), as an insertion sort.
RECURSIVE insertScore(_, _)
insertScore(sorted, score) ==
    IF sorted = <<>>
    THEN <<score>>
    ELSE IF scoreBefore(score, Head(sorted))
         THEN <<score>> \o sorted
         ELSE <<Head(sorted)>> \o insertScore(Tail(sorted), score)

RECURSIVE sortScores(_)
sortScores(scores) ==
    IF scores = <<>>
    THEN <<>>
    ELSE insertScore(sortScores(SubSeq(scores, 1, Len(scores) - 1)),
                     scores[Len(scores)])

slice(scores, end) == SubSeq(scores, 1, Min(end, Len(scores)))

\* fetchGlobalLeaderboard(diskCount): the stored scores sorted and cut to the
\* first ten; the empty list when the store is not reachable.
fetchGlobalLeaderboard(diskCount_, reachable) ==
    IF reachable
    THEN slice(sortScores(leaderboard[diskCount_]), LEADERBOARD_SIZE)
    ELSE <<>>

\* Mutant: the loop also stops at a score the run ties with.
RECURSIVE rankIn_StopsAtTie(_, _, _, _)
rankIn_StopsAtTie(board, moves, time, rank) ==
    IF rank > Len(board)
    THEN rank
    ELSE IF \/ moves < board[rank].moves
            \/ moves = board[rank].moves /\ time <= board[rank].time
         THEN rank
         ELSE rankIn_StopsAtTie(board, moves, time, rank + 1)

\* The loop that finds the rank: the place of the first score the run beats.
RECURSIVE rankIn(_, _, _, _)
rankIn(board, moves, time, rank) ==
    IF rank > Len(board)
    THEN rank
    ELSE IF \/ moves < board[rank].moves
            \/ moves = board[rank].moves /\ time < board[rank].time
         THEN rank
         ELSE rankIn(board, moves, time, rank + 1)

checkLeaderboardQualification_TieQualifies(diskCount_, moves, time, reachable) ==
    IF ~validateLeaderboardSubmission(diskCount_, moves, time).valid
    THEN [qualifies |-> FALSE, rank |-> NULL]
    ELSE LET board == fetchGlobalLeaderboard(diskCount_.val, reachable)
             worst == board[Len(board)]
         IN  IF Len(board) < LEADERBOARD_SIZE
             THEN [qualifies |-> TRUE, rank |-> Len(board) + 1]
             ELSE IF \/ moves.val < worst.moves
                     \/ moves.val = worst.moves /\ time.val <= worst.time
                  THEN [qualifies |-> TRUE,
                        rank |-> rankIn(board, moves.val, time.val, 1)]
                  ELSE [qualifies |-> FALSE, rank |-> NULL]

\* checkLeaderboardQualification(diskCount, moves, time), with the store
\* reachable or not at the fetch.
checkLeaderboardQualification(diskCount_, moves, time, reachable) ==
    IF ~validateLeaderboardSubmission(diskCount_, moves, time).valid
    THEN [qualifies |-> FALSE, rank |-> NULL]
    ELSE LET board == fetchGlobalLeaderboard(diskCount_.val, reachable)
             worst == board[Len(board)]
         IN  IF Len(board) < LEADERBOARD_SIZE
             THEN [qualifies |-> TRUE, rank |-> Len(board) + 1]
             ELSE IF \/ moves.val < worst.moves
                     \/ moves.val = worst.moves /\ time.val < worst.time
                  THEN [qualifies |-> TRUE,
                        rank |-> rankIn(board, moves.val, time.val, 1)]
                  ELSE [qualifies |-> FALSE, rank |-> NULL]

\* Direct calls of the two functions.
validateCall(diskCount_, moves, time) ==
    /\ lastCall' = [op |-> "validateLeaderboardSubmission",
                    diskCount |-> diskCount_, moves |-> moves, time |-> time,
                    result |-> validateLeaderboardSubmission(diskCount_, moves, time)]
    /\ UNCHANGED <<gameVars, selectedDiskCount, intervals, timerText, message,
                   highScores, now, keysEntered, leaderboard, savedDiskCount, storageThrows,
                   remoteVars>>

qualificationCall(diskCount_, moves, time, reachable) ==
    /\ lastCall' = [op |-> "checkLeaderboardQualification",
                    result |-> checkLeaderboardQualification(diskCount_, moves,
                                                             time, reachable)]
    /\ UNCHANGED <<gameVars, selectedDiskCount, intervals, timerText, message,
                   highScores, now, keysEntered, leaderboard, savedDiskCount, storageThrows,
                   remoteVars>>

\* The arguments of the direct calls of validateLeaderboardSubmission.
DiskArgs == {Num(2), Num(3), Num(4), Num(10), Num(11), Fraction(3), Str}
MoveArgs == {Num(6), Num(7), Num(14), Num(15), Num(1023), Fraction(7), Str}
TimeArgs == {Num(-1), Num(0), Num(60), Num(MAX_TIME), Num(MAX_TIME + 1), Fraction(60), Str}

ValidateSubmission ==
    \E d \in DiskArgs, m \in MoveArgs, t \in TimeArgs : validateCall(d, m, t)

NextValidate == ValidateSubmission

SpecValidate == InitLedger /\ [][NextValidate]_vars

\* The remote store of the 3-disk leaderboard holds up to MaxBoard scores,
\* written by any client: fast and slow runs, in either order.
MaxBoard == 11
BoardDisks == {3}
FastScore == [name |-> "AAA", moves |-> 7, time |-> 10, timestamp |-> PageLoadTime]
SlowScore == [name |-> "BBB", moves |-> 9, time |-> 20, timestamp |-> PageLoadTime]
Repeat(score, n) == [i \in 1..n |-> score]
BoardLists ==
    UNION {UNION {{Repeat(FastScore, i) \o Repeat(SlowScore, j),
                   Repeat(SlowScore, j) \o Repeat(FastScore, i)} :
                      j \in 0..(MaxBoard - i)} :
              i \in 0..MaxBoard}

RemoteWrite ==
    \E d \in BoardDisks, list \in BoardLists :
        /\ leaderboard' = [leaderboard EXCEPT ![d] = list]
        /\ UNCHANGED <<gameVars, selectedDiskCount, intervals, timerText, message,
                       highScores, now, keysEntered, lastCall, savedDiskCount, storageThrows,
                   remoteVars>>

\* The arguments of the direct calls of checkLeaderboardQualification.
QualifierDisks == {Num(2), Num(3), Num(4)}
QualifierMoves == {Num(6), Num(7), Num(9), Num(10)}
QualifierTimes == {Num(5), Num(10), Num(20), Num(30), Num(MAX_TIME + 1)}

CheckQualification ==
    \E d \in QualifierDisks, m \in QualifierMoves, t \in QualifierTimes,
       reachable \in BOOLEAN :
        qualificationCall(d, m, t, reachable)

NextQualifier ==
    \/ RemoteWrite
    \/ CheckQualification

SpecQualifier == InitLedger /\ [][NextQualifier]_vars

(***************************************************************************)
(* Submission to the global leaderboard: the name modal and the calls of   *)
(* submitToLeaderboard of two clients, each a read of the remote list      *)
(* followed by a write of the list with the new score.                     *)
(***************************************************************************)
LowerCase == "abcdefghijklmnopqrstuvwxyz"
UpperCase == "ABCDEFGHIJKLMNOPQRSTUVWXYZ"

RECURSIVE Contains(_, _)
Contains(string, c) ==
    string # "" /\ (Head(string) = c \/ Contains(Tail(string), c))

IsAlphanumeric(c) ==
    IsDigit(c) \/ Contains(LowerCase, c) \/ Contains(UpperCase, c)

\* The upper case of one character.
RECURSIVE upperOf(_, _, _)
upperOf(c, lower, upper) ==
    IF lower = "" THEN c
    ELSE IF SubSeq(lower, 1, 1) = c THEN SubSeq(upper, 1, 1)
    ELSE upperOf(c, Tail(lower), Tail(upper))

\* name.replace(/[^a-zA-Z0-9]/g, '')
RECURSIVE removeNonAlphanumeric(_)
removeNonAlphanumeric(name) ==
    IF name = "" THEN ""
    ELSE IF IsAlphanumeric(SubSeq(name, 1, 1))
    THEN SubSeq(name, 1, 1) \o removeNonAlphanumeric(Tail(name))
    ELSE removeNonAlphanumeric(Tail(name))

RECURSIVE toUpperCase(_)
toUpperCase(name) ==
    IF name = "" THEN ""
    ELSE upperOf(SubSeq(name, 1, 1), LowerCase, UpperCase) \o toUpperCase(Tail(name))

NAME_LENGTH == 3

\* Mutant: the name is cut to three characters before it is stripped.
sanitizeName_SliceFirst(name) ==
    toUpperCase(removeNonAlphanumeric(
        SubSeq(name, 1, Min(NAME_LENGTH, Len(name)))))

\* name.replace(/[^a-zA-Z0-9]/g, '').toUpperCase().slice(0, 3)
sanitizeName(name) ==
    SubSeq(toUpperCase(removeNonAlphanumeric(name)), 1,
           Min(NAME_LENGTH, Len(removeNonAlphanumeric(name))))

\* String.prototype.trim, for the white space a player types.
RECURSIVE TrimEnd(_)
TrimEnd(s) ==
    IF s # "" /\ SubSeq(s, Len(s), Len(s)) = " "
    THEN TrimEnd(SubSeq(s, 1, Len(s) - 1))
    ELSE s

trim(s) == TrimEnd(TrimStart(s))

\* showNameModal(diskCount, moves, time) in the page of a client: the modal
\* is shown with an empty input; it holds the three arguments.
showNameModal(s, diskCount_, moves, time) ==
    /\ modal' = [modal EXCEPT ![s] = [open |-> TRUE, diskCount |-> diskCount_,
                                      moves |-> moves, time |-> time]]
    /\ submits' = [submits EXCEPT ![s] = NoSubmit]

\* Mutant: the sanitized name is not checked.
submitRejected_NoNameCheck(initialised, diskCount_, name, moves, time) ==
    \/ ~initialised
    \/ ~validateLeaderboardSubmission(diskCount_, moves, time).valid

\* Lines 370-387 of submitToLeaderboard: the call returns false before it
\* reads the store.
submitRejected(initialised, diskCount_, name, moves, time) ==
    \/ ~initialised
    \/ ~validateLeaderboardSubmission(diskCount_, moves, time).valid
    \/ Len(sanitizeName(name)) = 0

\* The call of a client once it has returned.
Returned(call, result) ==
    [phase |-> "done", result |-> result, diskCount |-> call.diskCount,
     name |-> call.name, moves |-> call.moves, time |-> call.time,
     read |-> call.read]

\* handleSubmit of the modal, for the text of the input: nothing for an
\* empty name; else submitToLeaderboard is called, which returns false at
\* once (and the modal is hidden) or goes on to read the store.
handleSubmit(s, value, initialised) ==
    LET name == trim(value)
        call == [phase |-> "fetch", diskCount |-> modal[s].diskCount,
                 name |-> name, moves |-> modal[s].moves,
                 time |-> modal[s].time, read |-> FALSE]
    IN  /\ modal[s].open
        /\ submits[s].phase \notin {"fetch", "set"}
        /\ IF Len(name) = 0
           THEN UNCHANGED <<modal, submits>>
           ELSE IF submitRejected(initialised, call.diskCount, name,
                                  call.moves, call.time)
           THEN /\ submits' = [submits EXCEPT ![s] = Returned(call, FALSE)]
                /\ modal' = [modal EXCEPT ![s] = ModalHidden]
           ELSE /\ submits' = [submits EXCEPT ![s] = call]
                /\ UNCHANGED modal
        /\ UNCHANGED leaderboard

\* Mutant: the list is cut to ten without being sorted.
trimmedWith_NoSort(board, newScore) ==
    slice(Append(board, newScore), LEADERBOARD_SIZE)

\* Mutant: the list is cut to nine before the push, so the new score stays.
trimmedWith_KeepsNew(board, newScore) ==
    sortScores(Append(slice(sortScores(board), LEADERBOARD_SIZE - 1), newScore))

\* Lines 401-409: the new score is pushed, the list sorted and cut to ten.
trimmedWith(board, newScore) ==
    slice(sortScores(Append(board, newScore)), LEADERBOARD_SIZE)

\* Lines 391-409: the read of the store is answered (or fails, and the list
\* is empty); the list to write is made of what was read.
submitFetched(s, reachable) ==
    LET call == submits[s]
        newScore == [name |-> sanitizeName(call.name), moves |-> call.moves.val,
                     time |-> call.time.val, timestamp |-> now]
        board == fetchGlobalLeaderboard(call.diskCount.val, reachable)
    IN  /\ call.phase = "fetch"
        /\ submits' = [submits EXCEPT ![s] =
                          [phase |-> "set", diskCount |-> call.diskCount,
                           name |-> call.name, moves |-> call.moves,
                           time |-> call.time, read |-> reachable,
                           trimmed |-> trimmedWith(board, newScore)]]
        /\ UNCHANGED <<modal, leaderboard>>

\* Mutant: the write is a transaction on the list the store holds now.
writtenList_Transaction(s) ==
    trimmedWith(leaderboard[submits[s].diskCount.val],
                [name |-> sanitizeName(submits[s].name),
                 moves |-> submits[s].moves.val, time |-> submits[s].time.val,
                 timestamp |-> now])

\* Line 413: firebaseSet(dbRef, trimmed) replaces the list of the store.
writtenList(s) == submits[s].trimmed

\* Lines 413-419 and the rest of handleSubmit: the write is answered, the
\* call returns true, or false when the write failed; the modal is hidden.
submitSet(s, written) ==
    LET call == submits[s]
    IN  /\ call.phase = "set"
        /\ leaderboard' = IF written
                          THEN [leaderboard EXCEPT
                                   ![call.diskCount.val] = writtenList(s)]
                          ELSE leaderboard
        /\ submits' = [submits EXCEPT ![s] = Returned(call, written)]
        /\ modal' = [modal EXCEPT ![s] = ModalHidden]

\* The runs the two clients submit and the names their players type: the
\* first a perfect run or a run of too few moves, under a name with other
\* characters, a name of no alphanumeric character or a blank name; the
\* second a slower run.
SubmitDisk == 3
SubmitRuns(s) ==
    IF s = 1
    THEN {[moves |-> FastScore.moves, time |-> FastScore.time],
          [moves |-> FastScore.moves - 1, time |-> FastScore.time]}
    ELSE {[moves |-> SlowScore.moves, time |-> SlowScore.time]}
NameInputs(s) == IF s = 1 THEN {" al-ice ", "?!", "  "} ELSE {"bob"}

OpenModal ==
    \E s \in Sessions : \E run \in SubmitRuns(s) :
        /\ ~modal[s].open
        /\ showNameModal(s, Num(SubmitDisk), Num(run.moves), Num(run.time))
        /\ UNCHANGED <<gameVars, selectedDiskCount, intervals, timerText, message,
                       highScores, now, keysEntered, lastCall, leaderboard,
                       savedDiskCount, storageThrows, lookup>>

ConfirmName ==
    \E s \in Sessions : \E value \in NameInputs(s), initialised \in BOOLEAN :
        /\ handleSubmit(s, value, initialised)
        /\ UNCHANGED <<gameVars, selectedDiskCount, intervals, timerText, message,
                       highScores, now, keysEntered, lastCall,
                       savedDiskCount, storageThrows, lookup>>

StoreRead ==
    \E s \in Sessions, reachable \in BOOLEAN :
        /\ submitFetched(s, reachable)
        /\ UNCHANGED <<gameVars, selectedDiskCount, intervals, timerText, message,
                       highScores, now, keysEntered, lastCall,
                       savedDiskCount, storageThrows, lookup>>

StoreWrite ==
    \E s \in Sessions, written \in BOOLEAN :
        /\ submitSet(s, written)
        /\ UNCHANGED <<gameVars, selectedDiskCount, intervals, timerText, message,
                       highScores, now, keysEntered, lastCall,
                       savedDiskCount, storageThrows, lookup>>

NextSubmit ==
    \/ OpenModal
    \/ ConfirmName
    \/ StoreRead
    \/ StoreWrite

SpecSubmit == InitLedger /\ [][NextSubmit]_vars

(***************************************************************************)
(* One client alone: no other page writes the store.  The player confirms  *)
(* the name by the button or the Enter key, one call at a time.            *)
(***************************************************************************)
\* The runs the modal of the page is opened for and the names typed.
PageRuns == {[moves |-> FastScore.moves, time |-> FastScore.time],
             [moves |-> SlowScore.moves, time |-> SlowScore.time]}
PageNames == {" al ", "?!", " "}

otherVars == <<gameVars, selectedDiskCount, intervals, timerText, message,
               highScores, now, keysEntered, lastCall, savedDiskCount,
               storageThrows, lookup>>

PageOpenModal ==
    \E run \in PageRuns :
        /\ ~modal[1].open
        /\ showNameModal(1, Num(SubmitDisk), Num(run.moves), Num(run.time))
        /\ UNCHANGED <<otherVars, leaderboard>>

PageConfirmName ==
    \E value \in PageNames, initialised \in BOOLEAN :
        /\ handleSubmit(1, value, initialised)
        /\ UNCHANGED otherVars

PageStoreRead ==
    \E reachable \in BOOLEAN :
        /\ submitFetched(1, reachable)
        /\ UNCHANGED otherVars

PageStoreWrite ==
    \E written \in BOOLEAN :
        /\ submitSet(1, written)
        /\ UNCHANGED otherVars

NextSolo ==
    \/ PageOpenModal
    \/ PageConfirmName
    \/ PageStoreRead
    \/ PageStoreWrite

SpecSolo == InitLedger /\ [][NextSolo]_vars

(***************************************************************************)
(* One prompt of one client, the Enter key pressed again while the call    *)
(* of handleSubmit is in flight.  Slot 1 of submits is the first call of   *)
(* the prompt, slot 2 the call the second Enter starts.                    *)
(***************************************************************************)
\* showNameModal, once: the page shows the prompt of one win.
PromptOnce ==
    \E run \in PageRuns :
        /\ ~modal[1].open
        /\ \A s \in Sessions : submits[s].phase = "none"
        /\ showNameModal(1, Num(SubmitDisk), Num(run.moves), Num(run.time))
        /\ UNCHANGED <<otherVars, leaderboard>>

\* handleKeySubmit on Enter while the first call is in flight: the listener
\* is still attached and only the button is disabled, so handleSubmit runs
\* again for the same prompt.
handleKeySubmit(value, initialised) ==
    LET name == trim(value)
        call == [phase |-> "fetch", diskCount |-> modal[1].diskCount,
                 name |-> name, moves |-> modal[1].moves,
                 time |-> modal[1].time, read |-> FALSE]
    IN  /\ modal[1].open
        /\ submits[1].phase \in {"fetch", "set"}
        /\ submits[2].phase = "none"
        /\ IF Len(name) = 0
           THEN UNCHANGED <<modal, submits>>
           ELSE IF submitRejected(initialised, call.diskCount, name,
                                  call.moves, call.time)
           THEN /\ submits' = [submits EXCEPT ![2] = Returned(call, FALSE)]
                /\ modal' = [modal EXCEPT ![1] = ModalHidden]
           ELSE /\ submits' = [submits EXCEPT ![2] = call]
                /\ UNCHANGED modal
        /\ UNCHANGED leaderboard

\* Lines 413-419 and the rest of handleSubmit, for the second call.
secondSubmitSet(written) ==
    LET call == submits[2]
    IN  /\ call.phase = "set"
        /\ leaderboard' = IF written
                          THEN [leaderboard EXCEPT
                                   ![call.diskCount.val] = writtenList(2)]
                          ELSE leaderboard
        /\ submits' = [submits EXCEPT ![2] = Returned(call, written)]
        /\ modal' = [modal EXCEPT ![1] = ModalHidden]

EnterAgain ==
    \E value \in PageNames, initialised \in BOOLEAN :
        /\ handleKeySubmit(value, initialised)
        /\ UNCHANGED otherVars

SecondStoreRead ==
    \E reachable \in BOOLEAN :
        /\ submitFetched(2, reachable)
        /\ UNCHANGED otherVars

SecondStoreWrite ==
    \E written \in BOOLEAN :
        /\ secondSubmitSet(written)
        /\ UNCHANGED otherVars

NextEnter ==
    \/ PromptOnce
    \/ PageConfirmName
    \/ PageStoreRead
    \/ PageStoreWrite
    \/ EnterAgain
    \/ SecondStoreRead
    \/ SecondStoreWrite

SpecEnter == InitLedger /\ [][NextEnter]_vars

(***************************************************************************)
(* The rest of handleWin: the qualification lookup it awaits and the name  *)
(* modal it opens, in games of the 3-disk puzzle.                          *)
(***************************************************************************)
\* Lines 983-987: checkLeaderboardQualification is called with the disk
\* count and move count of the game just won and the elapsed seconds.
awaitedLookup(elapsedSeconds) ==
    [pending |-> TRUE, diskCount |-> Num(diskCount'), moves |-> Num(moveCount'),
     time |-> Num(elapsedSeconds)]

\* A key press; the move that wins the game leaves the lookup pending.  The
\* player does not win a second game before the lookup of the first is
\* answered.
WinKeyPress ==
    \E key \in TowerKeys \cup NewGameKeys :
        /\ PlayerEnters(key)
        /\ handleKeyPress(key)
        /\ IF gameWon' /\ ~gameWon
           THEN /\ ~lookup.pending
                /\ lookup' = awaitedLookup(ElapsedSeconds(startTime))
           ELSE UNCHANGED lookup
        /\ UNCHANGED <<now, keysEntered, lastCall, leaderboard, storageThrows,
                       modal, submits>>

\* Lines 983-991: the lookup is answered, with the store reachable at the
\* fetch or not; when the run qualifies the modal is opened for the disk
\* count and move count the game state holds now.
handleWinResumed(reachable) ==
    LET qualification ==
            checkLeaderboardQualification(lookup.diskCount, lookup.moves,
                                          lookup.time, reachable)
    IN  /\ lookup.pending
        /\ lookup' = NoLookup
        /\ lastCall' = [op |-> "handleWin", reachable |-> reachable,
                        result |-> qualification]
        /\ IF qualification.qualifies
           THEN showNameModal(1, Num(diskCount), Num(moveCount), lookup.time)
           ELSE UNCHANGED <<modal, submits>>
        /\ UNCHANGED <<gameVars, selectedDiskCount, intervals, timerText, message,
                       highScores, now, keysEntered, leaderboard,
                       savedDiskCount, storageThrows>>

LookupAnswered == \E reachable \in BOOLEAN : handleWinResumed(reachable)

NextWin ==
    \/ WinKeyPress
    \/ KeyDown
    \/ LookupAnswered

SpecWin == InitLedger /\ [][NextWin]_vars

(***************************************************************************)
(* Direct calls of getMinimalMoves and of sanitizeName.                    *)
(***************************************************************************)
\* Every state variable but lastCall.
pageVars == <<gameVars, selectedDiskCount, intervals, timerText, message,
              highScores, now, keysEntered, leaderboard, savedDiskCount,
              storageThrows, remoteVars>>

\* A direct call of getMinimalMoves(diskCount), as renderHighScores makes one
\* for every disk count of the table.
getMinimalMovesCall(n) ==
    /\ lastCall' = [op |-> "getMinimalMoves", n |-> n,
                    result |-> getMinimalMoves(n)]
    /\ UNCHANGED pageVars

MinimalMovesCall == \E n \in MIN_DISKS..MAX_DISKS : getMinimalMovesCall(n)

NextMinimal ==
    \/ MinimalMovesCall
    \/ DialKeyPress

SpecMinimal == InitSizes /\ [][NextMinimal]_vars

\* The names given to sanitizeName: some longer names and every string
\* of up to MaxNameLen characters of a lower-case letter, an upper-case
\* letter, a digit, a punctuation mark and a blank, each string the name of
\* the call before with one more character.
MaxNameLen == 4
NameAlphabet == {"a", "Z", "7", "-", " "}
GivenNames == {"", "a1!b2@", "A@B#C!", "abcdefgh", "!@#", "xYz9_q"}

\* A direct call of sanitizeName(name).
sanitizeNameCall(name) ==
    /\ lastCall' = [op |-> "sanitizeName", name |-> name,
                    result |-> sanitizeName(name)]
    /\ UNCHANGED pageVars

SanitizeGivenName ==
    \E name \in GivenNames :
        /\ lastCall.op # "sanitizeName"
        /\ sanitizeNameCall(name)

SanitizeLongerName ==
    \E c \in NameAlphabet :
        /\ lastCall.op = "sanitizeName"
        /\ Len(lastCall.name) < MaxNameLen
        /\ sanitizeNameCall(lastCall.name \o c)

NextSanitize ==
    \/ SanitizeGivenName
    \/ SanitizeLongerName

SpecSanitize == InitLedger /\ [][NextSanitize]_vars

(***************************************************************************)
(* Whole games of the puzzles of 3 to MaxShortDisks disks, the clock       *)
(* standing still: the player enters pole keys until the move count        *)
(* exceeds the minimum of the puzzle by MaxExtraMoves, or starts again.    *)
(***************************************************************************)
MaxShortDisks == 5

ShortestKeys == {"1", "2", "3", "j", "K", "n"}

ShortestKeyPress ==
    \E key \in ShortestKeys :
        /\ key \in TowerKeys =>
               moveCount < getMinimalMoves(diskCount) + MaxExtraMoves
        /\ handleKeyPress(key)
        /\ UNCHANGED <<now, keysEntered, lastCall, leaderboard, storageThrows,
                       remoteVars>>

InitShortest ==
    \E saved \in MIN_DISKS..MaxShortDisks : InitFor(ToString(saved))

NextShortest ==
    \/ ShortestKeyPress
    \/ KeyDown

SpecShortest == InitShortest /\ [][NextShortest]_vars

(***************************************************************************)
(* Properties.                                                             *)
(***************************************************************************)
Disks(p) == {towers[p][i] : i \in 1..Len(towers[p])}

\* C1: in every reachable state the three towers together hold each disk
\* 1..diskCount exactly once, and within each tower the sizes strictly
\* decrease from bottom to top.
C1_TowersPartition ==
    /\ Disks(0) \cup Disks(1) \cup Disks(2) = 1..diskCount
    /\ Len(towers[0]) + Len(towers[1]) + Len(towers[2]) = diskCount
    /\ \A p \in Poles :
          \A i \in 1..(Len(towers[p]) - 1) : towers[p][i] > towers[p][i + 1]

\* Disks are spread over all three poles of a 10-disk puzzle.
C1_Witness ==
    /\ diskCount = MAX_DISKS
    /\ moveCount >= 3
    /\ \A p \in Poles : towers[p] # <<>>
    /\ Len(towers[1]) + Len(towers[2]) >= 3

\* C2: a legal move (second selection j # i accepted by the validator)
\* takes the top disk of tower i and makes it the top disk of tower j, leaves
\* the third tower alone, adds exactly 1 to moveCount and returns to Idle.
C2_LegalMove ==
    [][\A key \in TowerKeys :
          LET i == selectedTower
              j == towerMap(key)
          IN  (/\ ~gameWon
               /\ i # NULL
               /\ j # i
               /\ isValidMove(i, j)
               /\ handleKeyPress(key))
              => /\ Len(towers'[i]) = Len(towers[i]) - 1
                 /\ towers'[i] = SubSeq(towers[i], 1, Len(towers[i]) - 1)
                 /\ Len(towers'[j]) = Len(towers[j]) + 1
                 /\ towers'[j] = towers[j] \o <<towers[i][Len(towers[i])]>>
                 /\ \A p \in Poles \ {i, j} : towers'[p] = towers[p]
                 /\ moveCount' = moveCount + 1
                 /\ selectedTower' = NULL
      ]_vars

\* A first legal move has been made.
C2_Witness ==
    /\ moveCount = 1
    /\ selectedTower = NULL
    /\ Len(towers[0]) = diskCount - 1
    /\ message = showMessage(PROMPT)

\* What C3 says isValidMove returns.
C3_Expected(f, t) ==
    /\ towers[f] # <<>>
    /\ \/ towers[t] = <<>>
       \/ Top(towers[t]) > Top(towers[f])

\* C3 as stated: for every pair of poles isValidMove(from, to) is true exactly
\* when the source is non-empty and the destination is empty or has a larger
\* top disk.
C3_Original ==
    \A f, t \in Poles : isValidMove(f, t) <=> C3_Expected(f, t)

\* C3 (amended): for distinct poles isValidMove(from, to) is true exactly when
\* the source is non-empty and the destination is empty or has a larger top
\* disk; for from = to it is true whenever the tower is non-empty; a call
\* leaves towers, selection, moveCount and won flag unchanged.
C3_ValidatorContract ==
    /\ [](\A f, t \in Poles : f # t => (isValidMove(f, t) <=> C3_Expected(f, t)))
    /\ [](\A f \in Poles : isValidMove(f, f) <=> towers[f] # <<>>)
    /\ [][\A f, t \in Poles :
            isValidMoveCall(f, t)
            => UNCHANGED <<towers, selectedTower, moveCount, gameWon>>]_vars

\* The validator has been called on an empty source while both other cases
\* (empty destination, smaller destination top) exist on the board.
C3_Witness ==
    /\ message = showError("Source tower is empty")
    /\ \E f, t \in Poles : f # t /\ towers[f] # <<>> /\ towers[t] # <<>>
                             /\ ~isValidMove(f, t)
    /\ \E f, t \in Poles : f # t /\ towers[t] # <<>> /\ isValidMove(f, t)

\* C4: an illegal move attempt (destination top disk smaller than the disk
\* to move) returns to Idle with towers, moveCount, won flag and clock start
\* unchanged.
C4_IllegalMove ==
    [][\A key \in TowerKeys :
          LET i == selectedTower
              j == towerMap(key)
          IN  (/\ ~gameWon
               /\ i # NULL
               /\ j # i
               /\ towers[i] # <<>>
               /\ towers[j] # <<>>
               /\ Top(towers[j]) < Top(towers[i])
               /\ handleKeyPress(key))
              => /\ selectedTower' = NULL
                 /\ UNCHANGED <<towers, moveCount, gameWon, startTime>>
      ]_vars

\* An illegal move has just been refused.
C4_Witness ==
    /\ message = showError("Cannot place larger disk on smaller disk")
    /\ selectedTower = NULL
    /\ moveCount >= 1
    /\ startTime # NO_TIME

\* C5: the won flag is true if and only if tower 2 holds diskCount disks, and
\* it becomes true only by the move that fills tower 2.
C5_WonIffTowerFull ==
    /\ [](gameWon <=> Len(towers[2]) = diskCount)
    /\ [][(~gameWon /\ gameWon')
          => /\ Len(towers[2]) = diskCount - 1
             /\ Len(towers'[2]) = diskCount
             /\ moveCount' = moveCount + 1
             /\ diskCount' = diskCount]_vars

\* The puzzle is won.
C5_Witness ==
    /\ gameWon
    /\ Len(towers[2]) = diskCount
    /\ moveCount >= getMinimalMoves(diskCount)

\* C6: once the puzzle is won nothing is selected, every pole key leaves
\* towers, moveCount and selection unchanged, and they stay unchanged for as
\* long as the puzzle stays won (until a restart).
C6_WonIgnoresInput ==
    /\ [](gameWon => selectedTower = NULL)
    /\ [][(gameWon /\ \E key \in TowerKeys : handleKeyPress(key))
          => UNCHANGED <<towers, moveCount, selectedTower, gameWon>>]_vars
    /\ [][(gameWon /\ gameWon')
          => UNCHANGED <<towers, moveCount, selectedTower>>]_vars

\* A won puzzle in which the player may still enter pole keys.
C6_Witness ==
    /\ gameWon
    /\ selectedTower = NULL
    /\ \E key \in TowerKeys : PlayerEnters(key)
    /\ now > PageLoadTime + 600

\* C7: selecting an empty tower while Idle changes no puzzle state: no
\* selection is recorded, towers and moveCount are unchanged and the clock is
\* not started.
C7_EmptySourceRejected ==
    [][\A key \in TowerKeys :
          (/\ ~gameWon
           /\ selectedTower = NULL
           /\ towers[towerMap(key)] = <<>>
           /\ handleKeyPress(key))
          => UNCHANGED <<towers, selectedTower, moveCount, startTime,
                         timerInterval, intervals, diskCount, gameWon>>
      ]_vars

\* An empty tower was selected as the first key of a game.
C7_Witness ==
    /\ message = showError("Can't select an empty tower")
    /\ selectedTower = NULL
    /\ startTime = NO_TIME
    /\ timerInterval = NO_TIME

\* C8: cancelling a pending selection, by the same pole key or by Escape,
\* returns to Idle with towers and moveCount unchanged and the started clock
\* neither stopped nor reset.
C8_CancelSelection ==
    [][(/\ selectedTower # NULL
        /\ \/ \E key \in TowerKeys :
                 towerMap(key) = selectedTower /\ handleKeyPress(key)
           \/ handleKeyDown("Escape"))
       => /\ selectedTower' = NULL
          /\ startTime' # NO_TIME
          /\ timerInterval' # NO_TIME
          /\ UNCHANGED <<towers, moveCount, startTime, timerInterval,
                         intervals, gameWon>>
      ]_vars

\* The first selection of a game was cancelled.
C8_Witness ==
    /\ selectedTower = NULL
    /\ message = showMessage(PROMPT)
    /\ moveCount = 0
    /\ startTime # NO_TIME
    /\ timerInterval # NO_TIME

\* C9: the clock starts at the first successful pole selection of a puzzle
\* instance and at no other event: it is unset before that selection, set by
\* it to the current instant, and afterwards changes only by a restart, which
\* unsets it.
C9_ClockStartsOnce ==
    /\ [](startTime = NO_TIME
            => selectedTower = NULL /\ moveCount = 0 /\ ~gameWon)
    /\ [][(selectedTower = NULL /\ selectedTower' # NULL)
          => startTime' # NO_TIME]_vars
    /\ [][startTime' # startTime
          => \/ /\ startTime = NO_TIME
                /\ startTime' = now
                /\ selectedTower = NULL
                /\ selectedTower' \in Poles
                /\ towers[selectedTower'] # <<>>
                /\ UNCHANGED <<towers, moveCount>>
             \/ /\ startTime' = NO_TIME
                /\ selectedTower' = NULL
                /\ moveCount' = 0
                /\ ~gameWon'
                /\ towers'[1] = <<>> /\ towers'[2] = <<>>]_vars

\* A later selection, made after the clock has run on, left the start alone.
C9_Witness ==
    /\ startTime # NO_TIME
    /\ now > startTime
    /\ moveCount >= 2
    /\ selectedTower # NULL

\* C10: the canonical 7-move solution of a fresh 3-disk game with an empty
\* ledger alternates Idle and SourceSelected, one move per pair of keys, is
\* won exactly after the 14th key with moveCount 7, shows the perfect-score
\* message and stores moves 7 and the elapsed seconds under key "3".
C10_CanonicalSolution ==
    /\ keysEntered % 2 = 1
         => /\ selectedTower = towerMap(CanonicalKeys[keysEntered])
            /\ moveCount = (keysEntered - 1) \div 2
    /\ keysEntered % 2 = 0
         => /\ selectedTower = NULL
            /\ moveCount = keysEntered \div 2
    /\ gameWon <=> keysEntered = Len(CanonicalKeys)
    /\ keysEntered < Len(CanonicalKeys) => highScores = <<>>
    /\ keysEntered = Len(CanonicalKeys)
         => /\ moveCount = 7
            /\ DOMAIN highScores = {"3"}
            /\ highScores["3"].moves = 7
            /\ highScores["3"].time =
                  (highScores["3"].timestamp - startTime) \div MS_PER_SECOND
            /\ message =
                  [text |-> "YOU WIN! Time: " \o formatTime(highScores["3"].time)
                            \o " | Moves: 7 | PERFECT SCORE!",
                   class |-> "message perfect"]

\* The solution was completed one second or more after the first selection.
C10_Witness ==
    /\ keysEntered = Len(CanonicalKeys)
    /\ gameWon
    /\ "3" \in DOMAIN highScores
    /\ highScores["3"].time = 1

\* What C11 requires of a call checkAndSaveHighScore(n, moves, t) that leads
\* from the unprimed to the primed state.
C11_Expected(n, moves, t) ==
    LET key == ToString(n)
        minimal == 2^n - 1
        had == key \in DOMAIN highScores
        old == highScores[key]
        new == highScores'[key]
        type == lastCall'.result
    IN  /\ ~had =>
            /\ type = (IF moves = minimal THEN "perfect" ELSE "first")
            /\ key \in DOMAIN highScores'
            /\ new.moves = moves /\ new.time = t
            /\ lastCall'.saved
        /\ (had /\ moves < old.moves) =>
            /\ type = (IF moves = minimal THEN "perfect" ELSE "moves")
            /\ new.moves = moves /\ new.time = t
            /\ lastCall'.saved
        /\ (had /\ moves = old.moves /\ t < old.time) =>
            /\ type = "time"
            /\ new.moves = old.moves /\ new.time = t
            /\ lastCall'.saved
        /\ (had /\ (moves > old.moves \/ (moves = old.moves /\ t >= old.time))) =>
            /\ type = "none"
            /\ highScores' = highScores
            /\ ~lastCall'.saved
        /\ DOMAIN highScores' = DOMAIN highScores \cup {key}
        /\ \A k \in DOMAIN highScores \ {key} : highScores'[k] = highScores[k]

\* C11: a call of checkAndSaveHighScore creates the record when there is none
\* (perfect if the moves are 2^n - 1, else first), overwrites moves and time
\* on fewer moves (perfect if minimal, else moves), overwrites only the time
\* on equal moves and a lower time (time), and otherwise, exact ties included,
\* returns none, leaves the ledger as it is and does not write the store; the
\* records of the other disk counts never change.
C11_RecordOutcome ==
    [][lastCall'.op = "checkAndSaveHighScore" =>
          \A n \in LedgerDisks, extra \in 0..MaxExtraMoves, t \in 1..MaxSeconds :
              checkAndSaveHighScore(n, (2^n - 1) + extra, t)
                  => C11_Expected(n, (2^n - 1) + extra, t)]_vars

\* A tie on the 3-disk record returned none while a 4-disk record is held.
C11_Witness ==
    /\ lastCall.op = "checkAndSaveHighScore"
    /\ lastCall.result = "none"
    /\ ~lastCall.saved
    /\ DOMAIN highScores = {"3", "4"}
    /\ highScores["3"].moves = 7
    /\ highScores["3"].time = 1

\* C12: in any sequence of checkAndSaveHighScore calls and imports, a record
\* the store holds stays, and is replaced only by one with strictly fewer
\* moves, or with equal moves and a strictly lower time.
C12_RecordsOnlyImprove ==
    [][\A k \in DOMAIN highScores :
          /\ k \in DOMAIN highScores'
          /\ \/ highScores'[k] = highScores[k]
             \/ highScores'[k].moves < highScores[k].moves
             \/ /\ highScores'[k].moves = highScores[k].moves
                /\ highScores'[k].time < highScores[k].time]_vars

\* An import has replaced the 3-disk record of an earlier game by a better
\* one, next to a 4-disk record a game has set.
C12_Witness ==
    /\ lastCall.op = "importHighScores"
    /\ lastCall.saved
    /\ DOMAIN highScores = {"3", "4"}
    /\ highScores["3"] = [moves |-> 7, time |-> 1, timestamp |-> now]
    /\ now > PageLoadTime
    /\ highScores["4"].moves = 16
    /\ highScores["4"].timestamp = PageLoadTime


\* C13: from an empty ledger, after any sequence of completed games and
\* accepted imports, the record stored under the key of a disk count N has at
\* least 2^N - 1 moves.
C13_RecordsAtLeastMinimal ==
    \A N \in MIN_DISKS..MAX_DISKS :
        ToString(N) \in DOMAIN highScores
            => highScores[ToString(N)].moves >= 2^N - 1

\* The ledger holds the record of a game won in 8 moves and an imported
\* 4-disk record.
C13_Witness ==
    /\ DOMAIN highScores = {"3", "4"}
    /\ highScores["3"] = [moves |-> 8, time |-> 0, timestamp |-> PageLoadTime]
    /\ highScores["4"].moves = 15
    /\ gameWon

\* What C14 requires of the merge of the entry (key, imported) into the
\* ledger, which leaves the mapping after.
C14_Expected(key, imported, after) ==
    LET old == highScores[key]
        new == after[key]
        better == \/ imported.moves.val < old.moves
                  \/ /\ imported.moves.val = old.moves
                     /\ imported.time.val < old.time
    IN  /\ key \in DOMAIN after
        /\ key \notin DOMAIN highScores =>
              new.moves = imported.moves.val /\ new.time = imported.time.val
        /\ (key \in DOMAIN highScores /\ better) =>
              new.moves = imported.moves.val /\ new.time = imported.time.val
        /\ (key \in DOMAIN highScores /\ ~better) => new = old

\* C14: an accepted import leaves, for each key of the imported mapping, the
\* better of the current and the imported record (fewer moves, then lower
\* time); a record absent locally is adopted, on an exact tie the current
\* record is kept, and the keys absent from the import keep their records.
\* Stated of every file the import action may be given in the current state.
C14_MergeKeepsBetter ==
    \A data \in LedgerFiles :
        importOutcome(data) = "scores" =>
            LET keys == {data.scores[i].key : i \in DOMAIN data.scores}
                after == importedLedger(data)
            IN  /\ \A i \in DOMAIN data.scores :
                      C14_Expected(data.scores[i].key, data.scores[i].value, after)
                /\ DOMAIN after = DOMAIN highScores \cup keys
                /\ \A k \in DOMAIN highScores \ keys : after[k] = highScores[k]

\* An import after the clock has advanced kept the 3-disk record on a tie
\* and adopted a 4-disk record.
C14_Witness ==
    /\ lastCall.op = "importHighScores"
    /\ lastCall.result = "scores"
    /\ now > PageLoadTime
    /\ DOMAIN highScores = {"3", "4"}
    /\ highScores["3"] = [moves |-> 7, time |-> 1, timestamp |-> PageLoadTime]
    /\ highScores["4"] = [moves |-> 15, time |-> 1, timestamp |-> now]

\* C15: merging an accepted file a second time, at the same or a later
\* instant, leaves the ledger the first merge produced.
C15_MergeIdempotent ==
    \A data \in LedgerFiles :
        importOutcome(data) = "scores" =>
            \A d \in {0} \cup ClockSteps :
                mergeEntries(importedLedger(data), data.scores, 1, now + d)
                    = importedLedger(data)

\* An import has adopted a record that carries no timestamp, which the merge
\* stamps with Date.now().
C15_Witness ==
    /\ lastCall.op = "importHighScores"
    /\ lastCall.result = "scores"
    /\ DOMAIN highScores = {"3"}
    /\ highScores["3"] = [moves |-> 7, time |-> 1, timestamp |-> PageLoadTime]


\* The keys of the disk counts, and the disk count of such a key.
DiskCountKeys == {ToString(N) : N \in MIN_DISKS..MAX_DISKS}
DiskCountOf(key) == CHOOSE N \in MIN_DISKS..MAX_DISKS : ToString(N) = key

\* C16: validation rejects every file one of whose keys is not an integer in
\* [3,10], so that every key an accepted import adds to the ledger is one of
\* "3".."10".  The code reads the key with parseInt, which takes the digits a
\* key starts with: the key "3abc" passes and is stored.
C16_KeysAreDiskCounts ==
    /\ \A s \in Mappings(ImportKeys, ImportValues) :
          (\E i \in DOMAIN s : s[i].key \notin DiskCountKeys) =>
              /\ importOutcome(Bare(s)) # "scores"
              /\ importOutcome(Wrapped(Num(1), s)) # "scores"
    /\ DOMAIN highScores \subseteq DiskCountKeys

\* An entry C17 says the validation rejects.
C17_Rejected(e) ==
    \/ e.value.type # "object"
    \/ e.value.moves.type # "number"
    \/ e.value.time.type # "number"
    \/ e.key \in DiskCountKeys /\ e.value.moves.val < 2^DiskCountOf(e.key) - 1
    \/ e.value.time.val < 0

\* C17: validation accepts the bare mapping and the wrapped form alike when
\* every entry is a record of a disk count, and rejects a file whenever one
\* entry lacks a numeric moves or time, has fewer moves than 2^key - 1, or a
\* negative time.  An accepted file leaves a record under each of its keys, a
\* rejected one leaves the ledger as it was.
C17_ValidatesEntries ==
    \A s \in Mappings(ImportKeys, ImportValues) :
        /\ (\E i \in DOMAIN s : C17_Rejected(s[i])) =>
              /\ importOutcome(Bare(s)) # "scores"
              /\ importOutcome(Wrapped(Num(1), s)) # "scores"
              /\ importedLedger(Bare(s)) = highScores
              /\ importedLedger(Wrapped(Num(1), s)) = highScores
        /\ (\A i \in DOMAIN s : s[i].key \in DiskCountKeys /\ ~C17_Rejected(s[i])) =>
              /\ importOutcome(Bare(s)) = "scores"
              /\ importOutcome(Wrapped(Num(1), s)) = "scores"
              /\ \A i \in DOMAIN s :
                    /\ s[i].key \in DOMAIN importedLedger(Bare(s))
                    /\ s[i].key \in DOMAIN importedLedger(Wrapped(Num(1), s))

\* A file has been rejected after an earlier one was accepted and merged.
C17_Witness ==
    /\ lastCall.op = "importHighScores"
    /\ lastCall.result = "null"
    /\ message = showError("Invalid file format")
    /\ DOMAIN highScores = {"3", "4"}

\* An entry the validation is specified to reject.
C18_Invalid(e) == e.key \notin DiskCountKeys \/ C17_Rejected(e)

\* C18: an import is all-or-nothing: when one entry of the file is invalid,
\* no entry is merged and the ledger is what it was, and the store is not
\* written.  A file with a valid entry under "3" and one under the key
\* "3abc" is merged whole.
C18_AllOrNothing ==
    \A s \in Mappings(ImportKeys, ImportValues) :
        (\E i \in DOMAIN s : C18_Invalid(s[i])) =>
            /\ importedLedger(Bare(s)) = highScores
            /\ importedLedger(Wrapped(Num(1), s)) = highScores


\* A JavaScript value that is an integer.
C19_Integer(v) == v.type = "number" /\ "fraction" \notin DOMAIN v

\* What C19 says validateSubmission returns.
C19_Expected(d, m, t) ==
    IF ~(C19_Integer(d) /\ d.val >= 3 /\ d.val <= 10)
    THEN [valid |-> FALSE, reason |-> "Invalid disk count"]
    ELSE IF ~(C19_Integer(m) /\ m.val >= 2^(d.val) - 1)
    THEN [valid |-> FALSE, reason |-> "Invalid move count"]
    ELSE IF ~(C19_Integer(t) /\ t.val >= 0 /\ t.val <= 86400)
    THEN [valid |-> FALSE, reason |-> "Invalid time"]
    ELSE [valid |-> TRUE]

\* C19: validateLeaderboardSubmission(diskCount, moves, time) returns valid
\* exactly when diskCount is an integer in [3,10], moves an integer of at
\* least 2^diskCount - 1 and time an integer in [0,86400]; otherwise it
\* returns the reason of the first check that fails, in the order disk
\* count, move count, time.
C19_ValidateSubmission ==
    lastCall.op = "validateLeaderboardSubmission" =>
        lastCall.result = C19_Expected(lastCall.diskCount, lastCall.moves, lastCall.time)

\* A minimal 3-disk run of one second more than 24 hours was refused for its
\* time.
C19_Witness ==
    /\ lastCall.op = "validateLeaderboardSubmission"
    /\ lastCall.diskCount = Num(3)
    /\ lastCall.moves = Num(7)
    /\ lastCall.time = Num(86401)
    /\ lastCall.result = [valid |-> FALSE, reason |-> "Invalid time"]

\* C20: for a valid triple, a fetched list of fewer than 10 entries always
\* qualifies the run, at rank length + 1; a list of 10 entries qualifies it
\* exactly when (moves, time) sorts strictly before the 10th entry; an
\* invalid triple never qualifies.  Stated of every call the qualifier may be
\* given in the current state of the remote store.
C20_Qualifies ==
    \A d \in QualifierDisks, m \in QualifierMoves, t \in QualifierTimes,
       reachable \in BOOLEAN :
        LET valid == C19_Expected(d, m, t).valid
            list == fetchGlobalLeaderboard(d.val, reachable)
            r == checkLeaderboardQualification(d, m, t, reachable)
        IN  /\ ~valid => ~r.qualifies
            /\ (valid /\ Len(list) < 10) =>
                  r.qualifies /\ r.rank = Len(list) + 1
            /\ (valid /\ Len(list) = 10) =>
                  (r.qualifies <=>
                      \/ m.val < list[10].moves
                      \/ m.val = list[10].moves /\ t.val < list[10].time)
            /\ valid => Len(list) <= 10

\* A run qualified at rank 4 against a store that holds 11 scores, three of
\* them fast.
C20_Witness ==
    /\ lastCall.op = "checkLeaderboardQualification"
    /\ lastCall.result = [qualifies |-> TRUE, rank |-> 4]
    /\ Len(leaderboard[3]) = 11
    /\ leaderboard[3][1] = SlowScore
    /\ leaderboard[3][9] = FastScore
    /\ leaderboard[3][8] = SlowScore

\* The initial state of the puzzle for n disks: tower 0 holds n..1, the other
\* towers are empty, no move is counted, nothing is selected, the game is not
\* won and the clock is unset.
C29_InitialState(n) ==
    /\ towers = [p \in Poles |-> IF p = 0 THEN [i \in 1..n |-> n + 1 - i]
                                          ELSE <<>>]
    /\ diskCount = n
    /\ moveCount = 0
    /\ selectedTower = NULL
    /\ ~gameWon
    /\ startTime = NO_TIME
    /\ timerInterval = NO_TIME

\* C28: a key of the dial ("+", "=", "-", "_") pressed during a game changes
\* the desired disk count only: towers, move count, selection, live disk
\* count, won flag and clock stay as they are; the live disk count changes
\* only by a new-game key, and then to the desired one.
C28_DialChangesDesiredOnly ==
    [][/\ (\E key \in DialKeys : handleKeyPress(key))
            => UNCHANGED <<towers, selectedTower, moveCount, diskCount, gameWon,
                           startTime, timerInterval>>
       /\ selectedDiskCount' # selectedDiskCount
            => UNCHANGED <<towers, selectedTower, moveCount, diskCount, gameWon,
                           startTime, timerInterval>>
       /\ diskCount' # diskCount
            => /\ \E key \in NewGameKeys : handleKeyPress(key)
               /\ diskCount' = selectedDiskCount]_vars

\* A game in progress whose desired disk count differs from the live one.
C28_Witness ==
    /\ selectedDiskCount # diskCount
    /\ moveCount > 0
    /\ selectedTower # NULL
    /\ startTime # NO_TIME

\* C29: a new-game key pressed in any state leaves the initial state for the
\* desired disk count N: tower 0 holds N..1, towers 1 and 2 are empty, the
\* move count is 0, nothing is selected, the game is not won and the clock is
\* unset.
C29_NewGameIsInitial ==
    [][(\E key \in NewGameKeys : handleKeyPress(key))
          => /\ C29_InitialState(selectedDiskCount)'
             /\ selectedDiskCount' = selectedDiskCount]_vars

\* A new game of another size, started after a game was won.
C29_Witness ==
    /\ highScores # <<>>
    /\ ToString(diskCount) \notin DOMAIN highScores
    /\ C29_InitialState(selectedDiskCount)

\* The count a saved text stands for: none for the absent and the non-numeric
\* text.
C30_SavedValue(saved) ==
    CASE saved = "2" -> 2 [] saved = "3" -> 3 [] saved = "4" -> 4
      [] saved = "5" -> 5 [] saved = "6" -> 6 [] saved = "7" -> 7
      [] saved = "8" -> 8 [] saved = "9" -> 9 [] saved = "10" -> 10
      [] saved = "11" -> 11 [] OTHER -> NULL

\* C30: the desired and the live disk count are integers in 3..10 in every
\* state; "+" or "=" at 10 and "-" or "_" at 3 change nothing, elsewhere
\* they change the desired count by exactly 1; at start-up a saved value
\* outside 3..10 gives the default 5 (a saved value inside 3..10 gives
\* itself).
C30_DiskCountRange ==
    [][/\ selectedDiskCount \in MIN_DISKS..MAX_DISKS
       /\ diskCount \in MIN_DISKS..MAX_DISKS
       /\ selectedDiskCount' \in MIN_DISKS..MAX_DISKS
       /\ diskCount' \in MIN_DISKS..MAX_DISKS
       /\ lastCall'.op = "handleKeyPress" /\ lastCall'.key \in {"+", "="}
            => selectedDiskCount' = IF selectedDiskCount = 10
                                    THEN 10
                                    ELSE selectedDiskCount + 1
       /\ lastCall'.op = "handleKeyPress" /\ lastCall'.key \in {"-", "_"}
            => selectedDiskCount' = IF selectedDiskCount = 3
                                    THEN 3
                                    ELSE selectedDiskCount - 1
       /\ lastCall'.op = "init"
            => /\ selectedDiskCount' =
                      IF ~storageThrows /\ C30_SavedValue(savedDiskCount) \in 3..10
                      THEN C30_SavedValue(savedDiskCount)
                      ELSE 5
               /\ diskCount' = selectedDiskCount']_vars

\* The page loaded again with a saved count above 10.
C30_Witness ==
    /\ lastCall.op = "init"
    /\ lastCall.saved = "11"
    /\ ~storageThrows
    /\ selectedDiskCount = 5

\* C21: the remote store is written only by a confirmed submission whose
\* sanitized name is not empty and whose triple passes validation, and then
\* only the list of its disk count; a submission whose sanitized name is
\* empty or whose triple is invalid returns false and leaves the store as it
\* is; a modal that is open and not confirmed writes nothing.
C21_WrittenOnlyByValidSubmit ==
    [][/\ leaderboard' # leaderboard
            => \E s \in Sessions :
                  /\ submits[s].phase = "set"
                  /\ submits'[s].phase = "done" /\ submits'[s].result
                  /\ Len(sanitizeName(submits[s].name)) > 0
                  /\ validateLeaderboardSubmission(
                         submits[s].diskCount, submits[s].moves,
                         submits[s].time).valid
                  /\ \A d \in DOMAIN leaderboard :
                         d # submits[s].diskCount.val
                            => leaderboard'[d] = leaderboard[d]
       /\ \A s \in Sessions :
             (/\ submits'[s] # submits[s]
              /\ submits'[s].phase = "done"
              /\ \/ Len(sanitizeName(submits'[s].name)) = 0
                 \/ ~validateLeaderboardSubmission(
                        submits'[s].diskCount, submits'[s].moves,
                        submits'[s].time).valid)
                => ~submits'[s].result /\ leaderboard' = leaderboard
       /\ \A s \in Sessions :
             (modal[s].open /\ submits[s].phase = "none"
                 /\ submits'[s].phase = "none")
                => \/ leaderboard' = leaderboard
                   \/ \E o \in Sessions \ {s} : submits[o].phase = "set"]_vars

\* The store holds a score, and the submission under the name "?!" has
\* returned false.
C21_Witness ==
    /\ leaderboard[SubmitDisk] # <<>>
    /\ submits[1].phase = "done"
    /\ submits[1].name = "?!"
    /\ ~submits[1].result
    /\ modal[2].open /\ submits[2].phase = "none"

\* C22: from an empty store, under every interleaving of the submissions
\* of the clients, the list of each disk count holds at most 10 entries, in
\* ascending order of moves and, among equal moves, of time.
C22_TopTenSorted ==
    \A d \in DOMAIN leaderboard :
        /\ Len(leaderboard[d]) <= 10
        /\ \A i \in 1..(Len(leaderboard[d]) - 1) :
              \/ leaderboard[d][i].moves < leaderboard[d][i + 1].moves
              \/ /\ leaderboard[d][i].moves = leaderboard[d][i + 1].moves
                 /\ leaderboard[d][i].time <= leaderboard[d][i + 1].time

\* The store holds ten perfect runs, and the slower run of the second client
\* has been cut from the list it is about to write.
C22_Witness ==
    /\ Len(leaderboard[SubmitDisk]) = 10
    /\ submits[2].phase = "set"
    /\ submits[2].read
    /\ submits[2].trimmed = leaderboard[SubmitDisk]
    /\ submits[1].phase = "done" /\ submits[1].result

\* C23: the update is a read followed by a write, not one atomic step: the
\* list a successful submission leaves in the store is the one it made of
\* what it had read, whatever the store holds at the write; so two clients
\* that both read before either writes both return true and the store
\* holds only one of the two new scores (the witness).
C23_ReadThenWrite ==
    [][\A s \in Sessions :
          (/\ submits[s].phase = "set"
           /\ submits'[s].phase = "done"
           /\ submits'[s].result)
             => leaderboard'[submits[s].diskCount.val] = submits[s].trimmed]_vars

\* Both clients have read the store and returned true, and the store holds
\* one score: a store that has been written is never empty again, so the
\* client that wrote last had read the empty store before the other wrote,
\* and the score of the other is lost, with nine places free.
C23_Witness ==
    /\ \A s \in Sessions :
          submits[s].phase = "done" /\ submits[s].result /\ submits[s].read
    /\ Len(leaderboard[SubmitDisk]) = 1

\* C24: while the lookup a win started is pending, the puzzle stays won and
\* its towers, move count and disk count are those of the win.
C24_PendingLookupKeepsWon ==
    lookup.pending
        => /\ gameWon
           /\ diskCount = lookup.diskCount.val
           /\ moveCount = lookup.moves.val
           /\ Len(towers[2]) = diskCount

\* C25: when the store is not reachable at the lookup, the run does not
\* qualify and no name modal is opened.
C25_UnreachableDoesNotQualify ==
    (lastCall.op = "handleWin" /\ ~lastCall.reachable)
        => ~lastCall.result.qualifies /\ ~modal[1].open

\* C26: when the store throws, a record set by one outcome of the session is
\* the baseline of the next: a call of checkAndSaveHighScore for the 3-disk
\* puzzle that follows another one does not return a first completion
\* again.
C26_InMemoryBaseline ==
    [][(/\ storageThrows
        /\ lastCall.op = "checkAndSaveHighScore"
        /\ lastCall'.op = "checkAndSaveHighScore")
          => lastCall'.result # "first"]_vars

\* The pole a pole key stands for.
C27_Pole(key) ==
    CASE key \in {"1", "f", "F"} -> 0
      [] key \in {"2", "j", "J"} -> 1
      [] key \in {"3", "k", "K"} -> 2

\* The towers after the top disk of pole f has gone to pole t.
C27_Moved(f, t) ==
    [p \in Poles |->
        IF p = f THEN SubSeq(towers[f], 1, Len(towers[f]) - 1)
        ELSE IF p = t THEN towers[t] \o <<towers[f][Len(towers[f])]>>
        ELSE towers[p]]

C27_Legal(f, t) ==
    /\ f # t
    /\ towers[f] # <<>>
    /\ towers[t] = <<>> \/ towers[f][Len(towers[f])] < towers[t][Len(towers[t])]

\* The puzzle state a key leaves, as a function of the puzzle state, the
\* desired disk count and the key alone.
C27_PuzzleAfter(key) ==
    LET same == [towers |-> towers, selected |-> selectedTower,
                 moveCount |-> moveCount, diskCount |-> diskCount,
                 won |-> gameWon]
    IN  IF key \in {"n", "N"}
        THEN [towers |-> [p \in Poles |->
                             IF p = 0
                             THEN [i \in 1..selectedDiskCount |->
                                      selectedDiskCount + 1 - i]
                             ELSE <<>>],
              selected |-> NULL, moveCount |-> 0,
              diskCount |-> selectedDiskCount, won |-> FALSE]
        ELSE IF key = "Escape"
        THEN [same EXCEPT !.selected = NULL]
        ELSE IF gameWon \/ key \notin {"1", "2", "3", "f", "j", "k", "F", "J", "K"}
        THEN same
        ELSE IF selectedTower = NULL
        THEN IF towers[C27_Pole(key)] = <<>>
             THEN same
             ELSE [same EXCEPT !.selected = C27_Pole(key)]
        ELSE IF C27_Legal(selectedTower, C27_Pole(key))
        THEN [towers |-> C27_Moved(selectedTower, C27_Pole(key)),
              selected |-> NULL, moveCount |-> moveCount + 1,
              diskCount |-> diskCount,
              won |-> Len(C27_Moved(selectedTower, C27_Pole(key))[2]) = diskCount]
        ELSE [same EXCEPT !.selected = NULL]

\* C27: with the store throwing on every read and write as with a working
\* store, a key leaves the puzzle state (towers, selection, move count,
\* disk count, won flag) that the puzzle state and the key alone determine:
\* selection, cancel, legal and illegal moves, the win and the restart are
\* the same in both.
C27_StoreNeverAltersPuzzle ==
    [][lastCall'.op \in {"handleKeyPress", "handleKeyDown"}
          => [towers |-> towers', selected |-> selectedTower',
              moveCount |-> moveCount', diskCount |-> diskCount',
              won |-> gameWon'] = C27_PuzzleAfter(lastCall'.key)]_vars

\* A game won over a store that throws.
C27_Witness ==
    /\ storageThrows
    /\ gameWon
    /\ lastCall.op = "handleKeyPress"
    /\ highScores = <<>>

\* C31: for every N in 3..10 getMinimalMoves(N) is 2^N - 1; it is 7 for 3
\* disks, 15 for 4, 31 for 5 and 1023 for 10.
C31_MinimalMoves ==
    lastCall.op = "getMinimalMoves" =>
        /\ lastCall.n \in 3..10
        /\ lastCall.result = 2^(lastCall.n) - 1
        /\ lastCall.n = 3 => lastCall.result = 7
        /\ lastCall.n = 4 => lastCall.result = 15
        /\ lastCall.n = 5 => lastCall.result = 31
        /\ lastCall.n = 10 => lastCall.result = 1023

C31_Witness ==
    /\ lastCall.op = "getMinimalMoves"
    /\ lastCall.n = 10
    /\ lastCall.result = 1023

C32_Lower ==
    <<"a", "b", "c", "d", "e", "f", "g", "h", "i", "j", "k", "l", "m",
      "n", "o", "p", "q", "r", "s", "t", "u", "v", "w", "x", "y", "z">>
C32_Upper ==
    <<"A", "B", "C", "D", "E", "F", "G", "H", "I", "J", "K", "L", "M",
      "N", "O", "P", "Q", "R", "S", "T", "U", "V", "W", "X", "Y", "Z">>
C32_Digits == {"0", "1", "2", "3", "4", "5", "6", "7", "8", "9"}
C32_Letters == 1..26

C32_IsAlnum(c) ==
    \/ c \in C32_Digits
    \/ \E i \in C32_Letters : c = C32_Lower[i] \/ c = C32_Upper[i]

C32_Uppercased(c) ==
    IF \E i \in C32_Letters : c = C32_Lower[i]
    THEN C32_Upper[CHOOSE i \in C32_Letters : c = C32_Lower[i]]
    ELSE c

\* The first k alphanumeric characters of s, in their order, uppercased.
RECURSIVE C32_FirstAlnum(_, _)
C32_FirstAlnum(s, k) ==
    IF s = "" \/ k = 0 THEN ""
    ELSE IF C32_IsAlnum(SubSeq(s, 1, 1))
    THEN C32_Uppercased(SubSeq(s, 1, 1)) \o C32_FirstAlnum(Tail(s), k - 1)
    ELSE C32_FirstAlnum(Tail(s), k)

\* Every character of s is a digit or an upper-case letter.
RECURSIVE C32_AllUpperOrDigit(_)
C32_AllUpperOrDigit(s) ==
    \/ s = ""
    \/ /\ \/ SubSeq(s, 1, 1) \in C32_Digits
           \/ \E i \in C32_Letters : SubSeq(s, 1, 1) = C32_Upper[i]
       /\ C32_AllUpperOrDigit(Tail(s))

\* C32: sanitizeName(s) is the first 3 alphanumeric characters of s in
\* their order, uppercased (fewer when s has fewer, "" when it has none); the
\* result holds only digits and upper-case letters and is never longer than
\* 3; "a1!b2@" gives "A1B" and "A@B#C!" gives "ABC".
C32_SanitizedName ==
    lastCall.op = "sanitizeName" =>
        /\ lastCall.result = C32_FirstAlnum(lastCall.name, 3)
        /\ Len(lastCall.result) <= 3
        /\ C32_AllUpperOrDigit(lastCall.result)
        /\ lastCall.name = "a1!b2@" => lastCall.result = "A1B"
        /\ lastCall.name = "A@B#C!" => lastCall.result = "ABC"

C32_Witness ==
    /\ lastCall.op = "sanitizeName"
    /\ lastCall.name = "a-Z7"
    /\ lastCall.result = "AZ7"

\* The tick timer is set exactly when the clock has started and the puzzle
\* is not won, and at most one interval exists.
C39_TimerState ==
    /\ (timerInterval # NO_TIME) <=> (startTime # NO_TIME /\ ~gameWon)
    /\ intervals <= 1
    /\ (intervals = 1) <=> (timerInterval # NO_TIME)

\* C39: in every reachable state the tick timer is active exactly when the
\* clock has started and the puzzle is not won, and at most one tick timer
\* exists; none survives the step that wins the game or a restart; a tick
\* changes no field of the puzzle state.
C39_TickTimer ==
    /\ []C39_TimerState
    /\ [][/\ (gameWon' /\ ~gameWon) => intervals' = 0
          /\ (handleKeyPress("n") \/ handleKeyPress("N")) => intervals' = 0
          /\ updateTimer =>
                 UNCHANGED <<towers, selectedTower, moveCount, startTime,
                             diskCount, gameWon, timerInterval>>]_vars

C39_Witness ==
    /\ timerInterval # NO_TIME
    /\ intervals = 1
    /\ moveCount >= 2
    /\ timerText # "TIME: 00:00"

\* C40: in every reachable state a pending selection names a non-empty
\* tower of a puzzle that is not won and whose clock has started; the
\* validator's message for an empty source is never shown after a key of the
\* player; the clock has started in every state of a won puzzle, so the
\* elapsed time of the win was computed from a set start instant.
C40_PendingSelection ==
    /\ selectedTower # NULL =>
           /\ Len(towers[selectedTower]) > 0
           /\ ~gameWon
           /\ startTime # NO_TIME
    /\ message # showError("Source tower is empty")
    /\ gameWon => startTime # NO_TIME

C40_Witness ==
    /\ selectedTower = 1
    /\ Len(towers[1]) = 1
    /\ startTime # NO_TIME
    /\ moveCount >= 2

\* C36: for every puzzle size N no sequence of inputs reaches a won puzzle
\* with a move count below 2^N - 1.
C36_NoShorterWin == gameWon => moveCount >= 2^diskCount - 1

C36_Witness ==
    /\ gameWon
    /\ diskCount = MaxShortDisks
    /\ moveCount = 2^diskCount - 1

\* The run of (moves, time) sorts strictly before the entry.
C33_SortsBefore(moves, time, entry) ==
    moves < entry.moves \/ (moves = entry.moves /\ time < entry.time)

\* C33: for a fetched list of 10 entries and a run that qualifies, the rank
\* returned is 1 plus the number of entries the run does not sort strictly
\* before, and it is the place the new entry takes in the list a submission
\* writes when the store is the same at the check and at the submission.
\* Stated of every call the qualifier may be given in the current state of
\* the remote store.
C33_RankIsInsertionPosition ==
    \A m \in QualifierMoves, t \in QualifierTimes :
        LET board == fetchGlobalLeaderboard(3, TRUE)
            r == checkLeaderboardQualification(Num(3), m, t, TRUE)
            newScore == [name |-> "NEW", moves |-> m.val, time |-> t.val,
                         timestamp |-> now]
            notBefore == {i \in 1..Len(board) :
                             ~C33_SortsBefore(m.val, t.val, board[i])}
            written == trimmedWith(board, newScore)
        IN  (Len(board) = 10 /\ r.qualifies) =>
                /\ r.rank = 1 + Cardinality(notBefore)
                /\ r.rank \in 1..10
                /\ written[r.rank] = newScore
                /\ \A i \in 1..Len(written) : i # r.rank => written[i] # newScore

\* A run qualified at rank 4 by a store of 10 scores, three of them fast.
C33_Witness ==
    /\ lastCall.op = "checkLeaderboardQualification"
    /\ lastCall.result = [qualifies |-> TRUE, rank |-> 4]
    /\ leaderboard[3] = Repeat(FastScore, 3) \o Repeat(SlowScore, 7)

\* C34: an accepted submission may evict its own entry.  When the list read
\* at the submission holds 10 entries and the new score sorts strictly
\* before none of them, the list to write is the list read, without the new
\* entry; the write that succeeds puts that list in the store and the call
\* returns true; a call that returns false wrote nothing.
C34_EvictsOwnEntry ==
    [][\A s \in Sessions :
        /\ ( /\ submits[s].phase = "fetch"
             /\ submits'[s].phase = "set"
             /\ submits'[s].read
             /\ Len(fetchGlobalLeaderboard(3, TRUE)) = 10
             /\ \A i \in 1..10 :
                    ~C33_SortsBefore(submits[s].moves.val, submits[s].time.val,
                                     fetchGlobalLeaderboard(3, TRUE)[i]) )
             => submits'[s].trimmed = fetchGlobalLeaderboard(3, TRUE)
        /\ (submits[s].phase = "set" /\ submits'[s].phase = "done")
             => IF submits'[s].result
                THEN leaderboard'[3] = submits[s].trimmed
                ELSE UNCHANGED leaderboard]_vars

\* The second client was told its slower run was stored; the store holds
\* ten scores, none under its name.
C34_Witness ==
    /\ submits[2].phase = "done"
    /\ submits[2].result
    /\ submits[2].read
    /\ sanitizeName(submits[2].name) = "BOB"
    /\ Len(leaderboard[3]) = 10
    /\ \A i \in 1..10 : leaderboard[3][i].name # "BOB"

\* C35: the disk count, move count and time the name modal is opened with
\* after a win are those of the winning run, the ones the qualification
\* lookup was given, whatever keys arrive while the lookup is pending.
C35_OfferedRunIsCheckedRun ==
    [][(lookup.pending /\ ~lookup'.pending /\ lastCall'.result.qualifies)
          => modal'[1] = [open |-> TRUE, diskCount |-> lookup.diskCount,
                          moves |-> lookup.moves, time |-> lookup.time]]_vars

\* C37: with no other writer, the list a successful submission leaves in
\* the store is the first 10 of the list before with the new entry, in the
\* order of (moves, time), whatever the read returned.
C37_OnlyTrimDrops ==
    [][(submits[1].phase = "set" /\ submits'[1].phase = "done"
           /\ submits'[1].result)
          => leaderboard'[3] =
                slice(sortScores(Append(leaderboard[3],
                        [name |-> sanitizeName(submits[1].name),
                         moves |-> submits[1].moves.val,
                         time |-> submits[1].time.val,
                         timestamp |-> now])), 10)]_vars

\* C38: one win adds at most one entry: however often the player confirms
\* the prompt, at most one write carrying the run succeeds, and the store,
\* empty before the prompt, holds at most one entry.
C38_OneWritePerWin ==
    /\ ~(\A s \in Sessions : submits[s].phase = "done" /\ submits[s].result)
    /\ Len(leaderboard[3]) <= 1

====
